---------------------------- MODULE Spec2Model ----------------------------
(***************************************************************************)
(* A model of the eveapi request pipeline (guarzo/eveapi):                 *)
(*   - the zKillboard aggregation service (modules/zkill/service.go),      *)
(*   - the ESI client: DoRequest, GetBytes (modules/esi client),           *)
(*   - the retrying transport (common/httpclient.go),                      *)
(*   - the zKillboard page client (modules/zkill/client.go).               *)
(* Each part has its own specification over its own variables; the other   *)
(* variables are left unchanged by its actions.                            *)
(***************************************************************************)
EXTENDS Integers, Sequences, FiniteSets, TLC

VARIABLES
    \* ---- zkill service: one run of GetKillMailDataForMonth ----
    params,        \* *model.Params: kind -> list of entity ids
    kindOrder,     \* the order in which `range entityGroups` visits the kinds
    aggregated,    \* []model.FlattenedKillMail, the running result
    killMailIDs,   \* map[int64]bool, as the set of its keys
    idx,           \* position in the (kind, id, direction) iteration
    page,          \* the page loop variable of the current tuple
    phase,         \* "fetch" | "exit" (inner loop left) | "returned"
    pageLog,       \* history: page indices requested for the current tuple
    respLog,       \* history: what each of those requests returned
    calls,         \* history: page-fetch calls made in this run
    appeared,      \* history: kill ids seen on any fetched page
    allOne,        \* history: every finished tuple was <data, empty>
    anyErr,        \* history: some page fetch of this run returned an error
    allErr,        \* history: every page fetch of this run returned an error
    ctx,           \* the context.Context of the run: "live" | "cancelled"
    result,        \* what GetKillMailDataForMonth returned: (slice, error)
    firstSeen,     \* history: the kill ids of the processed pages, each at
                   \* its first occurrence in fetch order
    \* ---- ESI client: direct DoRequest calls ----
    authClient,    \* esiClient.authClient: TRUE when one is configured (non-nil)
    dr,            \* the last DoRequest call: its arguments and what it did
    \* ---- cached reads: esiClient.GetBytes, zKillClient.fetchPageData ----
    client,        \* which client was constructed around the cache
    cache,         \* the CacheRepository: key -> entry
    rd,            \* the cached read in progress, or the last one completed
    lastOk,        \* history: per key, the content the last successful fetch
                   \* stored, while its entry has not expired or been deleted
    \* ---- httpClient.RetryWithExponentialBackoff around an operation ----
    rt,            \* the operation given, the loop's locals, and the history
                   \* of invocations and sleeps
    \* ---- zKillClient.doGetSingleKillMails ----
    sk,            \* the loop's locals, the context, and the history of
                   \* requests and sleeps
    \* ---- esiClient.buildCacheKey ----
    ck,            \* two calls with one endpoint and one parameter set
    \* ---- zKillClient.BuildCacheKey ----
    pk,            \* two page requests, a kill id, and the keys built for them
    \* ---- esiService.resolveLocationSystemID ----
    locCache,      \* the package's table: location id -> system id
    locCacheM,     \* the sync.RWMutex that guards it: who holds it
    lp,            \* per caller: position in the call, arguments, locals and
                   \* the history of what the call did
    lastWriter,    \* history: per location id, the caller that wrote it last
    \* ---- requests through a client built by NewEveHttpClient ----
    ua,            \* the base http.Clients, the clients built on them, and
                   \* the last request sent
    \* ---- a CacheRepository: cacheStore over go-cache ----
    repo,          \* the items stored, the clock, and the last operation
    \* ---- esiService.GetCharacterInfo ----
    ci,            \* the calls a caller made one after the other, and their outcomes
    \* ---- model.ConvertToFlattened ----
    cf,            \* the two records given and the record returned
    \* ---- zKillService.AggregateKillMailDumps ----
    ad,            \* the two slices given and the slice returned
    \* ---- the ESI client's request counters ----
    mt             \* the four package counters, and the DoRequest calls
                   \* running against them

aggVars == <<params, kindOrder, aggregated, killMailIDs, idx, page, phase,
             pageLog, respLog, calls, appeared, allOne, anyErr, allErr, ctx,
             result, firstSeen>>

drVars == <<authClient, dr>>

cacheVars == <<client, cache, rd, lastOk>>

retryVars == <<rt>>

singleVars == <<sk>>

keyVars == <<ck>>

pageKeyVars == <<pk>>

locVars == <<locCache, locCacheM, lp, lastWriter>>

uaVars == <<ua>>

repoVars == <<repo>>

charVars == <<ci>>

flatVars == <<cf>>

dumpVars == <<ad>>

metricVars == <<mt>>

vars == <<aggVars, drVars, cacheVars, retryVars, singleVars, keyVars,
          pageKeyVars, locVars, uaVars, repoVars, charVars,
                   flatVars, dumpVars, metricVars>>

-----------------------------------------------------------------------------
(* Helpers *)

Range(s) == {s[i] : i \in 1..Len(s)}

RECURSIVE Iota(_)
Iota(n) == IF n = 0 THEN <<>> ELSE Append(Iota(n - 1), n)

SeqsUpTo(S, n) == UNION {[1..k -> S] : k \in 0..n}

-----------------------------------------------------------------------------
(* zkill service *)

\* bound: records on one feed page
MaxPageLen == 2

\* const maxPages in GetKillMailDataForMonth
maxPages == 10

EntityKinds == {"corporation", "alliance", "character"}

Directions == <<"kills", "losses">>

KillIds == {111, 222}

\* the zkb block zKillboard reports for a kill
ZKBOf(id) == [Hash |-> IF id = 111 THEN "a" ELSE "b",
              TotalValue |-> id * 10, DroppedValue |-> id]

\* model.ZkillMail
ZkillMails == {[KillMailID |-> id, ZKB |-> ZKBOf(id)] : id \in KillIds}

\* the parameter sets a run is started with
ParamChoices ==
    { [corporation |-> <<111>>, alliance |-> <<222>>, character |-> <<333>>],
      [corporation |-> <<98, 99>>, alliance |-> <<>>, character |-> <<333>>] }

\* Go's map iteration order is unspecified: any permutation of the three keys
KindOrders ==
    {o \in [1..3 -> EntityKinds] : \A i, j \in 1..3 : i # j => o[i] # o[j]}

\* entityGroups as built from params
entityGroups(p) ==
    [k \in EntityKinds |->
        CASE k = "corporation" -> p.corporation
          [] k = "alliance"    -> p.alliance
          [] k = "character"   -> p.character]

\* the two inner loops of one id: kills first, then losses
IdTuples(kind, id) ==
    <<[kind |-> kind, id |-> id, dir |-> Directions[1]],
      [kind |-> kind, id |-> id, dir |-> Directions[2]]>>

RECURSIVE KindTuples(_, _)
KindTuples(kind, ids) ==
    IF ids = <<>> THEN <<>>
    ELSE IdTuples(kind, Head(ids)) \o KindTuples(kind, Tail(ids))

RECURSIVE RunTuples(_, _)
RunTuples(order, groups) ==
    IF order = <<>> THEN <<>>
    ELSE KindTuples(Head(order), groups[Head(order)])
            \o RunTuples(Tail(order), groups)

\* the (kind, id, direction) tuples of the run, in iteration order
Tuples == RunTuples(kindOrder, entityGroups(params))

\* what ZKillClient.GetKillsPageData / GetLossPageData may return
PageResponses ==
    {[err |-> TRUE, mails |-> <<>>]}
        \cup {[err |-> FALSE, mails |-> m] : m \in SeqsUpTo(ZkillMails, MaxPageLen)}

RespKind(r) == IF r.err THEN "err" ELSE IF r.mails = <<>> THEN "empty" ELSE "data"

\* the run has not returned
NoResult == [returned |-> FALSE]

\* faulty variant: a run in which fetches failed and nothing was collected
\* returns an error
ReturnValuesFailingWhenEmpty(agg, fetchFailed) ==
    [returned |-> TRUE, value |-> agg,
     err |-> IF fetchFailed /\ agg = <<>> THEN "error" ELSE "nil"]

\* `return aggregated, nil`, whatever the fetches did
ReturnValues(agg, fetchFailed) == [returned |-> TRUE, value |-> agg, err |-> "nil"]

\* the ids of a page not yet in the list, appended in in-page order
RECURSIVE FirstOccurrences(_, _)
FirstOccurrences(seen, mails) ==
    IF mails = <<>> THEN seen
    ELSE FirstOccurrences(IF Head(mails).KillMailID \in Range(seen) THEN seen
                          ELSE Append(seen, Head(mails).KillMailID),
                          Tail(mails))

\* faulty variant: the new record is put in front of the list
AddEsiKillMailPrepending(mail, agg) ==
    [aggregated |-> <<[KillMailID   |-> mail.KillMailID,
                       Hash         |-> mail.ZKB.Hash,
                       TotalValue   |-> mail.ZKB.TotalValue,
                       DroppedValue |-> mail.ZKB.DroppedValue]>> \o agg,
     err |-> FALSE]

\* AddEsiKillMail: flatten the zkill record and append it; it has no error path
AddEsiKillMail(mail, agg) ==
    [aggregated |-> Append(agg, [KillMailID   |-> mail.KillMailID,
                                 Hash         |-> mail.ZKB.Hash,
                                 TotalValue   |-> mail.ZKB.TotalValue,
                                 DroppedValue |-> mail.ZKB.DroppedValue]),
     err |-> FALSE]

\* faulty variant: the duplicate check is dropped
RECURSIVE processKillMailsNoDedup(_, _, _)
processKillMailsNoDedup(mails, ids, agg) ==
    IF mails = <<>> THEN [aggregated |-> agg, killMailIDs |-> ids]
    ELSE LET m == Head(mails)
             r == AddEsiKillMail(m, agg)
         IN  processKillMailsNoDedup(Tail(mails), ids \cup {m.KillMailID},
                                     r.aggregated)

\* faulty variant: the appended record's id is not marked seen
RECURSIVE processKillMailsNotMarking(_, _, _)
processKillMailsNotMarking(mails, ids, agg) ==
    IF mails = <<>> THEN [aggregated |-> agg, killMailIDs |-> ids]
    ELSE LET m == Head(mails)
             r == AddEsiKillMail(m, agg)
         IN  IF m.KillMailID \in ids
             THEN processKillMailsNotMarking(Tail(mails), ids, agg)
             ELSE processKillMailsNotMarking(Tail(mails), ids, r.aggregated)

\* processKillMails: skip ids already seen, append the others, mark them seen
RECURSIVE processKillMails(_, _, _)
processKillMails(mails, ids, agg) ==
    IF mails = <<>> THEN [aggregated |-> agg, killMailIDs |-> ids]
    ELSE LET m == Head(mails)
             r == AddEsiKillMail(m, agg)
         IN  IF m.KillMailID \in ids
             THEN processKillMails(Tail(mails), ids, agg)
             ELSE IF r.err
             THEN processKillMails(Tail(mails), ids, agg)
             ELSE processKillMails(Tail(mails), ids \cup {m.KillMailID},
                                   r.aggregated)

\* faulty variant: an empty page does not end the pagination
LoopBreaksOnErrorOnly(resp) == resp.err

\* faulty variant: a fetch error does not end the pagination
LoopBreaksOnEmptyOnly(resp) == ~resp.err /\ Len(resp.mails) = 0

\* the two `break`s that follow a page fetch: an error, or an empty page
LoopBreaks(resp) == resp.err \/ Len(resp.mails) = 0

\* the loop condition `page <= maxPages`
LoopContinues(p) == p <= maxPages

InitAgg ==
    /\ params \in ParamChoices
    /\ kindOrder \in KindOrders
    /\ aggregated = <<>>
    /\ killMailIDs = {}
    /\ idx = 1
    /\ page = 1
    /\ phase = IF Len(RunTuples(kindOrder, entityGroups(params))) = 0
               THEN "returned" ELSE "fetch"
    /\ pageLog = <<>>
    /\ respLog = <<>>
    /\ calls = 0
    /\ appeared = {}
    /\ allOne = TRUE
    /\ anyErr = FALSE
    /\ allErr = TRUE
    /\ ctx \in {"live", "cancelled"}
    /\ result = IF Len(RunTuples(kindOrder, entityGroups(params))) = 0
                THEN ReturnValues(<<>>, FALSE) ELSE NoResult
    /\ firstSeen = <<>>

\* one iteration of a page loop: fetch page `page` of the current tuple, break
\* or process the page, then `page++` and the loop condition. The context is
\* handed to the page client and not looked at here; under a cancelled
\* context the client still answers from its cache or with an error.
FetchPage ==
    /\ phase = "fetch"
    /\ \E resp \in PageResponses :
        LET r == processKillMails(resp.mails, killMailIDs, aggregated)
        IN  /\ pageLog' = Append(pageLog, page)
            /\ respLog' = Append(respLog, RespKind(resp))
            /\ calls' = calls + 1
            /\ anyErr' = (anyErr \/ resp.err)
            /\ allErr' = (allErr /\ resp.err)
            /\ appeared' = appeared \cup {resp.mails[i].KillMailID :
                                            i \in 1..Len(resp.mails)}
            /\ IF LoopBreaks(resp)
               THEN /\ phase' = "exit"
                    /\ UNCHANGED <<aggregated, killMailIDs, page, firstSeen>>
               ELSE /\ aggregated' = r.aggregated
                    /\ firstSeen' = FirstOccurrences(firstSeen, resp.mails)
                    /\ killMailIDs' = r.killMailIDs
                    /\ page' = page + 1
                    /\ phase' = IF LoopContinues(page + 1) THEN "fetch" ELSE "exit"
    /\ UNCHANGED <<params, kindOrder, idx, allOne, ctx, result>>
    /\ UNCHANGED <<drVars, cacheVars, retryVars, singleVars, keyVars, pageKeyVars, locVars, uaVars,
                   repoVars, charVars, flatVars, dumpVars, metricVars>>

\* the inner loop has been left: go on with the next direction, id or kind,
\* or return the result when there is none
NextTuple ==
    /\ phase = "exit"
    /\ allOne' = (allOne /\ respLog = <<"data", "empty">>)
    /\ idx' = idx + 1
    /\ IF idx + 1 > Len(Tuples)
       THEN /\ phase' = "returned"
            /\ result' = ReturnValues(aggregated, anyErr)
            /\ UNCHANGED <<page, pageLog, respLog>>
       ELSE /\ phase' = "fetch"
            /\ page' = 1
            /\ pageLog' = <<>>
            /\ respLog' = <<>>
            /\ UNCHANGED result
    /\ UNCHANGED <<params, kindOrder, aggregated, killMailIDs, calls, appeared,
                   anyErr, allErr, ctx, firstSeen>>
    /\ UNCHANGED <<drVars, cacheVars, retryVars, singleVars, keyVars, pageKeyVars, locVars, uaVars,
                   repoVars, charVars, flatVars, dumpVars, metricVars>>

NextAgg == FetchPage \/ NextTuple

\* the service's variables while no run is modelled
IdleAgg ==
    /\ params = [corporation |-> <<>>, alliance |-> <<>>, character |-> <<>>]
    /\ kindOrder = <<"corporation", "alliance", "character">>
    /\ aggregated = <<>>
    /\ killMailIDs = {}
    /\ idx = 1
    /\ page = 1
    /\ phase = "returned"
    /\ pageLog = <<>>
    /\ respLog = <<>>
    /\ calls = 0
    /\ appeared = {}
    /\ allOne = TRUE
    /\ anyErr = FALSE
    /\ allErr = TRUE
    /\ ctx = "live"
    /\ result = NoResult
    /\ firstSeen = <<>>

-----------------------------------------------------------------------------
(* Claims about the zkill service *)

KillIdsOf(agg) == {agg[i].KillMailID : i \in 1..Len(agg)}

NoDuplicateIds(agg) ==
    \A i, j \in 1..Len(agg) : agg[i].KillMailID = agg[j].KillMailID => i = j

\* the seen set and the list agree
SeenMatchesResult(ids, agg) ==
    /\ ids = KillIdsOf(agg)
    /\ Len(agg) = Cardinality(ids)

\* what processing the record m did to the seen set and the list
RecordStep(m, ids, agg, ids2, agg2) ==
    \/ /\ ids2 = ids
       /\ agg2 = agg
    \/ /\ m.KillMailID \notin ids
       /\ ids2 = ids \cup {m.KillMailID}
       /\ Len(agg2) = Len(agg) + 1
       /\ SubSeq(agg2, 1, Len(agg)) = agg
       /\ agg2[Len(agg2)].KillMailID = m.KillMailID

\* the state of processKillMails after the first k records of a page
AfterRecords(mails, k) == processKillMails(SubSeq(mails, 1, k), killMailIDs, aggregated)

\* C38: between two records of a run of GetKillMailDataForMonth the ids
\* marked seen are the kill ids of the accumulated result and the result has
\* as many records as there are seen ids; processing one record leaves both
\* as they were, or appends one record with that record's id and marks the
\* id, the earlier records staying as they were. Stated at every page
\* boundary of the run and, for every page that can follow, after each of
\* its records.
C38_SeenSetMatchesResult ==
    /\ SeenMatchesResult(killMailIDs, aggregated)
    /\ \A mails \in SeqsUpTo(ZkillMails, MaxPageLen) :
        \A k \in 0..(Len(mails) - 1) :
            LET before == AfterRecords(mails, k)
                after  == AfterRecords(mails, k + 1)
                one    == processKillMails(<<mails[k + 1]>>, before.killMailIDs,
                                           before.aggregated)
            IN  /\ after = one
                /\ SeenMatchesResult(after.killMailIDs, after.aggregated)
                /\ RecordStep(mails[k + 1], before.killMailIDs, before.aggregated,
                              after.killMailIDs, after.aggregated)

\* a run that has both records, 222 before 111, and fetched a page made of
\* duplicates only
C38_Witness ==
    /\ killMailIDs = {111, 222}
    /\ Len(aggregated) = 2
    /\ aggregated[1].KillMailID = 222
    /\ calls >= 3
    /\ phase = "fetch"

C3_CeilingIsHundred ==
    (phase # "fetch" /\ Len(respLog) >= 1
        /\ \A i \in 1..Len(respLog) : respLog[i] = "data")
      => pageLog = Iota(100)

\* C4: a page fetch that returns an error is the last fetch of its tuple (no
\* higher page is requested), while the run goes on: every tuple of the run
\* is fetched, starting at page 1, the run returns only after the last tuple,
\* and the records taken from the earlier pages stay in the result.
C4_FetchErrorEndsOnlyItsTuple ==
    /\ \A i \in 1..Len(respLog) :
          respLog[i] = "err" => i = Len(respLog) /\ phase # "fetch"
    /\ pageLog = Iota(Len(pageLog))
    /\ phase = "fetch" => idx <= Len(Tuples) /\ page = Len(pageLog) + 1
    /\ phase = "exit" => idx <= Len(Tuples) /\ Len(pageLog) >= 1
    /\ phase = "returned" => idx = Len(Tuples) + 1
    /\ calls >= idx - 1
    /\ appeared \subseteq KillIdsOf(aggregated)

\* C4 witness: a run in which a fetch failed in an earlier tuple has returned;
\* its last tuple was fetched from page 1 and the result holds records.
C4_Witness ==
    /\ phase = "returned"
    /\ anyErr
    /\ respLog = <<"data", "empty">>
    /\ pageLog = <<1, 2>>
    /\ Len(aggregated) = 2

\* C26: GetKillMailDataForMonth returns the records collected so far and a
\* nil error whatever the feeds did: when ids were seen more than once, when
\* some page fetches failed, and when every page fetch failed, the result
\* then being empty. Nothing is returned before the last tuple is done.
C26_AlwaysNilError ==
    /\ phase # "returned" => result = NoResult
    /\ phase = "returned" =>
        /\ result = [returned |-> TRUE, value |-> aggregated, err |-> "nil"]
        /\ allErr => (calls = Len(Tuples) /\ result.value = <<>>)

\* a run in which every page fetch failed has returned an empty result and
\* no error
C26_Witness ==
    /\ phase = "returned"
    /\ allErr
    /\ calls = 6
    /\ result = [returned |-> TRUE, value |-> <<>>, err |-> "nil"]

\* C27 (as claimed): a run started with a context that is already cancelled,
\* in which every page fetch failed, returns a non-nil error.
C27_CancelledRunReturnsError ==
    (phase = "returned" /\ ctx = "cancelled" /\ allErr) => result.err # "nil"

IsPrefix(a, b) == Len(a) <= Len(b) /\ SubSeq(b, 1, Len(a)) = a

IdsInOrder(agg) == [i \in 1..Len(agg) |-> agg[i].KillMailID]

\* the position of an id in the list given for its kind
PositionIn(ids, id) == CHOOSE i \in 1..Len(ids) : ids[i] = id

\* the tuples of one kind follow the list given for the kind, and for one id
\* the kills tuple comes before the losses tuple
TuplesInGivenOrder ==
    LET t == Tuples
    IN  \A i, j \in 1..Len(t) :
            (i < j /\ t[i].kind = t[j].kind) =>
                LET ids == entityGroups(params)[t[i].kind]
                IN  /\ PositionIn(ids, t[i].id) <= PositionIn(ids, t[j].id)
                    /\ t[i].id = t[j].id =>
                        (t[i].dir = "kills" /\ t[j].dir = "losses")

\* C29: the result is in insertion order. The tuples of the run, fixed when
\* it starts, are visited in the order given (ids as listed for a kind,
\* kills before losses), the pages of
\* a tuple in increasing index, and with every step the result is the old
\* result followed by new records, its ids being those of the processed
\* pages at their first occurrence in that order: a record once appended is
\* never moved or removed.
C29_InsertionOrder ==
    /\ TuplesInGivenOrder
    /\ [][/\ params' = params /\ kindOrder' = kindOrder
          /\ idx' >= idx
          /\ (idx' = idx => page' >= page)
          /\ IsPrefix(aggregated, aggregated')
          /\ IdsInOrder(aggregated') = firstSeen']_vars

\* a finished run: 222 came first in the fetch order, 111 later, and the
\* result lists them in that order
C29_Witness ==
    /\ phase = "returned"
    /\ calls >= 4
    /\ firstSeen = <<222, 111>>
    /\ IdsInOrder(aggregated) = <<222, 111>>

-----------------------------------------------------------------------------
(* ESI client: DoRequest *)

\* a nil *oauth2.Token
NoToken == [AccessToken |-> "", RefreshToken |-> "", nil |-> TRUE]

Token(a, r) == [AccessToken |-> a, RefreshToken |-> r, nil |-> FALSE]

\* the tokens a caller passes
CallerTokens ==
    {NoToken, Token("oldAccess", "oldRefresh"), Token("oldAccess", ""),
     Token("", "oldRefresh")}

\* the results of AuthClient.RefreshToken: (token, error)
RefreshResults ==
    {[token |-> Token("newAccess", "newRefresh"), err |-> FALSE],
     [token |-> Token("", "newRefresh"), err |-> FALSE],
     [token |-> NoToken, err |-> TRUE],
     [token |-> NoToken, err |-> FALSE]}

\* the expectedStatus arguments callers pass: none, or their own list
ExpectedChoices == {<<>>, <<200, 204>>}

Statuses == {200, 204, 401, 403, 404, 429, 500, 503}

Bodies == {"b1", "b2"}

\* request bodies: none (nil reader) or a payload
RequestBodies == {"", "payload"}

\* what httpClient.Do and the read of the response body may yield
NetOutcomes ==
    {[kind |-> "resp", status |-> st, body |-> b] : st \in Statuses, b \in Bodies}
        \cup {[kind |-> "doErr", status |-> 0, body |-> ""]}
        \cup {[kind |-> "readErr", status |-> 200, body |-> ""]}

\* errors, as the caller can tell them apart
NoErr == [type |-> "nil", StatusCode |-> 0, Body |-> ""]

\* &common.HTTPError{StatusCode, Body}
HTTPError(st, b) == [type |-> "HTTPError", StatusCode |-> st, Body |-> b]

\* fmt.Errorf("failed to execute request: %w", err)
ExecuteError == [type |-> "failed to execute request", StatusCode |-> 0, Body |-> ""]

\* fmt.Errorf("failed to read response body: %v", readErr)
ReadBodyError == [type |-> "failed to read response body", StatusCode |-> 0, Body |-> ""]

\* fmt.Errorf("token refresh failed: %w", refreshErr)
RefreshFailedError == [type |-> "token refresh failed", StatusCode |-> 0, Body |-> ""]

\* no response bytes (a nil []byte)
NoData == ""

\* executeRequest: build the request from the token, send it, read the body
executeRequest(token, reqBody, net) ==
    LET req == [Authorization |-> IF ~token.nil /\ token.AccessToken # ""
                                  THEN token.AccessToken ELSE "",
                body |-> reqBody]
    IN  CASE net.kind = "doErr" ->
               [data |-> NoData, status |-> 0, err |-> ExecuteError, req |-> req]
          [] net.kind = "readErr" ->
               [data |-> NoData, status |-> net.status, err |-> ReadBodyError,
                req |-> req]
          [] OTHER ->
               [data |-> net.body, status |-> net.status, err |-> NoErr, req |-> req]

statusMatches(statusCode, expected) ==
    \E i \in 1..Len(expected) : expected[i] = statusCode

canRefresh(token, auth) == ~token.nil /\ token.RefreshToken # "" /\ auth

\* the metrics switch: which counter, besides totalCalls, the status bumps
MetricOf(status) ==
    IF status = 404 THEN "notFound"
    ELSE IF status >= 200 /\ status < 300 THEN "success"
    ELSE "fail"

\* faulty variant: every final response is returned as a success
FinishRequestAlwaysOk(x, exp, sent, refreshArgs) ==
    [data |-> x.data, err |-> NoErr, sent |-> sent, refreshArgs |-> refreshArgs,
     metric |-> MetricOf(x.status)]

\* the end of DoRequest, once the final response x is there: count it, then
\* return its body, or an HTTPError when its status is not an expected one
FinishRequest(x, exp, sent, refreshArgs) ==
    IF ~statusMatches(x.status, exp)
    THEN [data |-> NoData, err |-> HTTPError(x.status, x.data), sent |-> sent,
          refreshArgs |-> refreshArgs, metric |-> MetricOf(x.status)]
    ELSE [data |-> x.data, err |-> NoErr, sent |-> sent,
          refreshArgs |-> refreshArgs, metric |-> MetricOf(x.status)]

\* an early `return nil, err`
FailRequest(err, sent, refreshArgs) ==
    [data |-> NoData, err |-> err, sent |-> sent, refreshArgs |-> refreshArgs,
     metric |-> "none"]

\* faulty variant: the retry is sent with the caller's stale token
RetryTokenStale(token, newToken) == token

\* the token the retry is sent with: `token = newToken`
RetryToken(token, newToken) == newToken

\* faulty variant: a failed refresh falls back to the first response
RefreshBranchFallsBack(token, reqBody, exp, x1, ro, net2) ==
    LET args == <<token.RefreshToken>>
        x2   == executeRequest(RetryToken(token, ro.token), reqBody, net2)
    IN  IF ~ro.err /\ ~ro.token.nil
        THEN IF x2.err # NoErr
             THEN FailRequest(x2.err, <<x1.req, x2.req>>, args)
             ELSE FinishRequest(x2, exp, <<x1.req, x2.req>>, args)
        ELSE FinishRequest(x1, exp, <<x1.req>>, args)

\* faulty variant: a retry that is refused again triggers another refresh and request
RefreshBranchRefreshesAgain(token, reqBody, exp, x1, ro, net2) ==
    LET args == <<token.RefreshToken>>
        x2   == executeRequest(RetryToken(token, ro.token), reqBody, net2)
    IN  IF ~ro.err /\ ~ro.token.nil
        THEN IF x2.err # NoErr
             THEN FailRequest(x2.err, <<x1.req, x2.req>>, args)
             ELSE IF x2.status \in {401, 403}
             THEN FinishRequest(x2, exp, <<x1.req, x2.req, x2.req>>,
                                Append(args, ro.token.RefreshToken))
             ELSE FinishRequest(x2, exp, <<x1.req, x2.req>>, args)
        ELSE FailRequest(RefreshFailedError, <<x1.req>>, args)

\* the refresh branch of DoRequest: refresh with the token's refresh token;
\* on success send the request once more with the new token, on failure fail
RefreshBranch(token, reqBody, exp, x1, ro, net2) ==
    LET args == <<token.RefreshToken>>
        x2   == executeRequest(RetryToken(token, ro.token), reqBody, net2)
    IN  IF ~ro.err /\ ~ro.token.nil
        THEN IF x2.err # NoErr
             THEN FailRequest(x2.err, <<x1.req, x2.req>>, args)
             ELSE FinishRequest(x2, exp, <<x1.req, x2.req>>, args)
        ELSE FailRequest(RefreshFailedError, <<x1.req>>, args)

\* DoRequest(ctx, method, urlStr, token, body, expectedStatus...), given what
\* the network yields for the first send (net1), what a refresh returns (ro)
\* and what the network yields for a second send (net2)
DoRequest(token, auth, reqBody, expected, net1, ro, net2) ==
    LET exp == IF Len(expected) = 0 THEN <<200>> ELSE expected
        x1  == executeRequest(token, reqBody, net1)
    IN  IF x1.err # NoErr
        THEN FailRequest(x1.err, <<x1.req>>, <<>>)
        ELSE IF x1.status \in {401, 403} /\ canRefresh(token, auth)
        THEN RefreshBranch(token, reqBody, exp, x1, ro, net2)
        ELSE FinishRequest(x1, exp, <<x1.req>>, <<>>)

\* faulty variant: the new token's fields are written into the caller's
\* token (`*token = *newToken`)
CallerTokenOverwritten(token, newToken) == newToken

\* the caller's token object after `token = newToken`: the assignment
\* rebinds DoRequest's parameter, the object keeps its fields
CallerTokenAfterAssign(token, newToken) == token

\* the caller's token object when DoRequest has returned; executeRequest
\* only reads the token and RefreshToken is given a string
CallerTokenAfter(token, ro, out) ==
    IF Len(out.refreshArgs) > 0 /\ ~ro.err /\ ~ro.token.nil
    THEN CallerTokenAfterAssign(token, ro.token)
    ELSE token

\* the record of a DoRequest call: arguments, what the collaborators did for
\* the steps the call reached, and the outcome
NoCall == [called |-> FALSE]

CallRecord(token, reqBody, expected, net1, ro, net2, out) ==
    [called   |-> TRUE,
     token    |-> token,
     reqBody  |-> reqBody,
     expected |-> expected,
     got      |-> IF Len(out.sent) = 1 THEN <<net1>> ELSE <<net1, net2>>,
     refresh  |-> IF Len(out.refreshArgs) = 0 THEN <<>> ELSE <<ro>>,
     tokenAfter |-> CallerTokenAfter(token, ro, out),
     out      |-> out]

InitDr ==
    /\ authClient \in BOOLEAN
    /\ dr = NoCall

IdleDr ==
    /\ authClient = FALSE
    /\ dr = NoCall

\* a caller (GetUserInfo, PostJSON, DeleteJSON, ...) runs DoRequest
DoRequestCall ==
    /\ ~dr.called
    /\ \E token \in CallerTokens, reqBody \in RequestBodies,
          expected \in ExpectedChoices, net1 \in NetOutcomes,
          ro \in RefreshResults, net2 \in NetOutcomes :
          dr' = CallRecord(token, reqBody, expected, net1, ro, net2,
                    DoRequest(token, authClient, reqBody, expected, net1, ro, net2))
    /\ UNCHANGED authClient
    /\ UNCHANGED <<aggVars, cacheVars, retryVars, singleVars, keyVars, pageKeyVars, locVars, uaVars,
                   repoVars, charVars, flatVars, dumpVars, metricVars>>

NextDr == DoRequestCall

-----------------------------------------------------------------------------
(* The retrying transport: RetryWithExponentialBackoff *)

maxRetries == 5

\* baseDelay and maxDelay, in seconds
baseDelay == 1

maxDelay == 32

\* the statuses RetryWithExponentialBackoff retries on
RetryableStatuses == {500, 502, 503, 504}

\* faulty variant: a rate-limited response is retried as well
RetryableWith429(err) ==
    err.type = "HTTPError" /\ err.StatusCode \in RetryableStatuses \cup {429}

\* errors.As(err, &httpErr) and the status test
Retryable(err) == err.type = "HTTPError" /\ err.StatusCode \in RetryableStatuses

\* faulty variant: the delay grows by one second instead of doubling
NextDelayLinear(delay) == IF delay + 1 > maxDelay THEN maxDelay ELSE delay + 1

\* delay *= 2, capped at maxDelay
NextDelay(delay) == IF delay * 2 > maxDelay THEN maxDelay ELSE delay * 2

\* faulty variant: the loop has no ceiling
RetryGoesOnNoCeiling(i, err) == Retryable(err)

\* after a failed attempt i (from 0): whether the loop sleeps and goes on
RetryGoesOn(i, err) == Retryable(err) /\ i # maxRetries - 1

\* faulty variant: a failed call returns a new error about the retries
FailRetryWrapped(err) ==
    [result |-> "nil",
     err |-> [type |-> "retries failed", StatusCode |-> 0, Body |-> ""]]

\* `return nil, err` after the loop
FailRetry(err) == [result |-> "nil", err |-> err]

\* bound: the jitter is drawn in ticks, this many to the second
TicksPerSecond == 2

\* bound: the longest run of retryable failures an operation starts with
MaxFailures == 6

\* rand.Int63n(int64(delay)): a value in [0, delay); the least, a middle and
\* the greatest one
Jitters(delay) ==
    {0, (delay * TicksPerSecond) \div 2, delay * TicksPerSecond - 1}

\* an operation returning `nil, err`
OpFails(err) == [result |-> "nil", err |-> err]

\* what an operation returns once its run of retryable failures is over:
\* a result, an HTTPError that is not retryable, or an error of another type
FinalOutcomes ==
    {[result |-> "success", err |-> NoErr]}
        \cup {OpFails(HTTPError(st, "b1")) : st \in {401, 403, 404, 429}}
        \cup {OpFails(ExecuteError)}

\* the k-th invocation (from 1) of an operation that fails `fails` times with
\* a retryable HTTPError, here of status st, and returns `final` from then on
Operation(k, fails, final, st) ==
    IF k <= fails THEN OpFails(HTTPError(st, "temporary issue")) ELSE final

NoRetry == [pc |-> "idle"]

InitRetry ==
    rt \in [pc : {"running"}, fails : 0..MaxFailures, final : FinalOutcomes,
            i : {0}, delay : {baseDelay}, invocations : {0}, sleeps : {<<>>},
            lastErr : {NoErr}, out : {OpFails(NoErr)}]

IdleRetry == rt = NoRetry

\* one turn of the loop of RetryWithExponentialBackoff: invoke the operation;
\* return its result when it succeeds; after a retryable error, unless this
\* was the last attempt, sleep for delay + jitter, double the delay up to
\* maxDelay and go round again; otherwise leave the loop and return the error
RetryAttempt ==
    /\ rt.pc = "running"
    /\ \E st \in RetryableStatuses, jitter \in Jitters(rt.delay) :
        LET out == Operation(rt.invocations + 1, rt.fails, rt.final, st)
            r   == [rt EXCEPT !.invocations = @ + 1, !.lastErr = out.err]
        IN  IF out.err = NoErr
            THEN rt' = [r EXCEPT !.pc = "done", !.out = out]
            ELSE IF RetryGoesOn(rt.i, out.err)
            THEN rt' = [r EXCEPT !.i = @ + 1,
                                 !.sleeps = Append(@, rt.delay * TicksPerSecond + jitter),
                                 !.delay = NextDelay(@)]
            ELSE rt' = [r EXCEPT !.pc = "done", !.out = FailRetry(out.err)]
    /\ UNCHANGED <<aggVars, drVars, cacheVars, singleVars, keyVars, pageKeyVars, locVars, uaVars,
                   repoVars, charVars, flatVars, dumpVars, metricVars>>

NextRetry == RetryAttempt

-----------------------------------------------------------------------------
(* The single-record retry loop: zKillClient.doGetSingleKillMails *)

maxAttempts == 5

\* the values of the Retry-After header: absent, integers, not an integer
RetryAfterValues == {"", "0", "7", "soon"}

\* strconv.Atoi on a Retry-After value
Atoi(str) ==
    CASE str = "0" -> [ok |-> TRUE, n |-> 0]
      [] str = "7" -> [ok |-> TRUE, n |-> 7]
      [] OTHER -> [ok |-> FALSE, n |-> 0]

\* the record zkillboard returns for the kill asked for
SingleKills == <<[KillMailID |-> 111]>>

\* what zk.Client.Do and the decoding of the body may yield in one attempt: a
\* transport error; a 200 whose body decodes to the record or to an empty
\* list; a 200 whose decoding fails, leaving nothing or what was decoded up
\* to the error; a 404 or 500; a 429 with its Retry-After header
SingleOutcomes ==
    {[kind |-> "doErr", status |-> 0, decodes |-> FALSE, kills |-> <<>>, retryAfter |-> ""]}
        \cup {[kind |-> "resp", status |-> 200, decodes |-> d, kills |-> k, retryAfter |-> ""] :
                d \in BOOLEAN, k \in {<<>>, SingleKills}}
        \cup {[kind |-> "resp", status |-> st, decodes |-> FALSE, kills |-> <<>>, retryAfter |-> ""] :
                st \in {404, 500}}
        \cup {[kind |-> "resp", status |-> 429, decodes |-> FALSE, kills |-> <<>>, retryAfter |-> h] :
                h \in RetryAfterValues}

\* ctx.Err() of a cancelled context
ContextCanceled == "context canceled"

\* fmt.Errorf("all %d attempts failed for single kill URL %s", ...)
AllAttemptsFailed == "all 5 attempts failed for single kill URL"

NoSingle == [pc |-> "idle"]

InitSingle ==
    sk = [pc |-> "running", attempt |-> 1, backoff |-> 1, ctxDone |-> FALSE,
          kills |-> <<>>, err |-> "", sends |-> 0, sendsAtCancel |-> 0,
          sleeps |-> <<>>, rateLimited |-> 0, otherFailures |-> 0,
          last |-> [kind |-> "none"], cacheSet |-> <<>>]

IdleSingle == sk = NoSingle

\* faulty variant: the context is not looked at before an attempt
CtxIgnored(ctxDone) == FALSE

\* `select { case <-ctx.Done(): return nil, ctx.Err(); default: }`
CtxDone(ctxDone) == ctxDone

\* faulty variant: the backoff sleep follows the Retry-After sleep as well
SwitchSleepAlsoBacksOff(o, backoff) ==
    IF o.status # 429 THEN [sleeps |-> <<>>, backoff |-> backoff]
    ELSE IF o.retryAfter # "" /\ Atoi(o.retryAfter).ok
    THEN [sleeps |-> <<Atoi(o.retryAfter).n, backoff>>, backoff |-> backoff * 2]
    ELSE [sleeps |-> <<backoff>>, backoff |-> backoff * 2]

\* faulty variant: the cache is written whatever the loop returned
SingleCacheSetAlways(kills, err) == <<[kills |-> kills]>>

\* GetSingleKillmail after doGetSingleKillMails returned, on a cache miss:
\* the list is marshalled and stored under the kill's key when there is no
\* error; an error is returned before the cache is touched
SingleCacheSet(kills, err) ==
    IF err = "" /\ Len(kills) > 0 THEN <<[kills |-> kills]>> ELSE <<>>

\* the sleep inside the switch and what it leaves of the backoff: after a 429
\* with an integer Retry-After sleep that many seconds, after another 429
\* sleep for the backoff and double it; no sleep after other statuses
SwitchSleep(o, backoff) ==
    IF o.status # 429 THEN [sleeps |-> <<>>, backoff |-> backoff]
    ELSE IF o.retryAfter # "" /\ Atoi(o.retryAfter).ok
    THEN [sleeps |-> <<Atoi(o.retryAfter).n>>, backoff |-> backoff]
    ELSE [sleeps |-> <<backoff>>, backoff |-> backoff * 2]

\* one turn of the loop of doGetSingleKillMails, entered with attempt <=
\* maxAttempts: return ctx.Err() when the context is done; send the request;
\* on a transport error sleep, double the backoff and go on; otherwise handle
\* the status, return the kills when there are some, and sleep once more
\* unless the status was 429. Leaving the loop after the last attempt returns
\* the "all attempts failed" error. GetSingleKillmail, which called the loop
\* after missing the cache, stores what it returned.
SingleAttempt ==
    /\ sk.pc = "running"
    /\ \E o \in SingleOutcomes :
        LET sent == [sk EXCEPT !.sends = @ + 1, !.last = o]
            sw   == SwitchSleep(o, sk.backoff)
            next(r) == IF sk.attempt = maxAttempts
                       THEN [r EXCEPT !.pc = "done", !.err = AllAttemptsFailed,
                                      !.attempt = @ + 1,
                                      !.cacheSet = SingleCacheSet(<<>>, AllAttemptsFailed)]
                       ELSE [r EXCEPT !.attempt = @ + 1]
        IN  IF CtxDone(sk.ctxDone)
            THEN sk' = [sk EXCEPT !.pc = "done", !.err = ContextCanceled,
                                  !.cacheSet = SingleCacheSet(<<>>, ContextCanceled)]
            ELSE IF o.kind = "doErr"
            THEN sk' = next([sent EXCEPT !.sleeps = Append(@, sk.backoff),
                                         !.backoff = @ * 2,
                                         !.otherFailures = @ + 1])
            ELSE IF o.status = 200 /\ Len(o.kills) > 0
            THEN sk' = [sent EXCEPT !.pc = "done", !.kills = o.kills,
                                    !.cacheSet = SingleCacheSet(o.kills, "")]
            ELSE IF o.status = 429
            THEN sk' = next([sent EXCEPT !.sleeps = @ \o sw.sleeps,
                                         !.backoff = sw.backoff,
                                         !.rateLimited = @ + 1])
            ELSE sk' = next([sent EXCEPT !.sleeps = Append(@, sk.backoff),
                                         !.backoff = @ * 2,
                                         !.otherFailures = @ + 1])
    /\ UNCHANGED <<aggVars, drVars, cacheVars, retryVars, keyVars, pageKeyVars, locVars, uaVars,
                   repoVars, charVars, flatVars, dumpVars, metricVars>>

\* the caller's context is cancelled, or its deadline passes, while the loop
\* is between the start of one turn and the start of the next
CancelContext ==
    /\ sk.pc = "running"
    /\ ~sk.ctxDone
    /\ sk' = [sk EXCEPT !.ctxDone = TRUE, !.sendsAtCancel = sk.sends]
    /\ UNCHANGED <<aggVars, drVars, cacheVars, retryVars, keyVars, pageKeyVars, locVars, uaVars,
                   repoVars, charVars, flatVars, dumpVars, metricVars>>

NextSingle == SingleAttempt \/ CancelContext

-----------------------------------------------------------------------------
(* Strings, cache keys and cached bytes *)

Digit(d) ==
    CASE d = 0 -> "0" [] d = 1 -> "1" [] d = 2 -> "2" [] d = 3 -> "3"
      [] d = 4 -> "4" [] d = 5 -> "5" [] d = 6 -> "6" [] d = 7 -> "7"
      [] d = 8 -> "8" [] d = 9 -> "9"

\* fmt's %d for a number >= 0
RECURSIVE Itoa(_)
Itoa(n) == IF n < 10 THEN Digit(n) ELSE Itoa(n \div 10) \o Digit(n % 10)

\* fmt's %02d for a number >= 0
Pad2(n) == IF n < 10 THEN "0" \o Itoa(n) ELSE Itoa(n)

\* the query parameter names in use, in the order sort.Strings gives them
ParamNamesSorted == <<"datasource", "language", "page">>

\* sort.Strings over a set of parameter names
SortStrings(names) == SelectSeq(ParamNamesSorted, LAMBDA k : k \in names)

RECURSIVE QueryParams(_, _)
QueryParams(keys, prm) ==
    IF keys = <<>> THEN ""
    ELSE "&" \o Head(keys) \o "=" \o prm[Head(keys)] \o QueryParams(Tail(keys), prm)

\* esiClient.buildCacheKey
buildCacheKey(endpoint, prm) ==
    "esi:" \o endpoint \o ":" \o QueryParams(SortStrings(DOMAIN prm), prm)

\* zKillClient.BuildCacheKey
BuildCacheKey(apiType, entityType, entityID, year, month, pg) ==
    "zkill:" \o apiType \o ":" \o entityType \o "ID:" \o Itoa(entityID) \o ":"
        \o Itoa(year) \o ":" \o Pad2(month) \o ":" \o Itoa(pg)

\* a nil or empty map[string]string
NoParams == [k \in {} |-> ""]

\* GetBytes: `params["datasource"] = "tranquility"` when the key is absent
WithDatasource(prm) ==
    IF "datasource" \in DOMAIN prm THEN prm
    ELSE [k \in DOMAIN prm \cup {"datasource"} |->
            IF k = "datasource" THEN "tranquility" ELSE prm[k]]

\* cached bytes: a raw response body, or the JSON text of a list of zkill mails
RawBytes(body) == [isJSON |-> FALSE, text |-> body, mails |-> <<>>]

\* json.Marshal of a []model.ZkillMail
Marshal(kills) == [isJSON |-> TRUE, text |-> "", mails |-> kills]

\* json.Unmarshal into a []model.ZkillMail
Unmarshal(bytes) ==
    IF bytes.isJSON THEN [ok |-> TRUE, mails |-> bytes.mails]
    ELSE [ok |-> FALSE, mails |-> <<>>]

NoEntry == [found |-> FALSE]

Entry(bytes, ttl) == [found |-> TRUE, value |-> bytes, ttl |-> ttl]

\* defaultCacheExpiration / zkillCacheExpiration, in hours
defaultCacheExpiration == 770

\* the TTL of a page of the current month, in hours
currentMonthExpiration == 24

-----------------------------------------------------------------------------
(* esiClient.buildCacheKey over the iteration order of the parameter map *)

\* the place of a parameter name in the byte-wise order of sort.Strings
StringRank(k) == CHOOSE n \in 1..Len(ParamNamesSorted) : ParamNamesSorted[n] = k

RECURSIVE InsertByRank(_, _)
InsertByRank(k, keys) ==
    IF keys = <<>> THEN <<k>>
    ELSE IF StringRank(k) <= StringRank(Head(keys)) THEN <<k>> \o keys
    ELSE <<Head(keys)>> \o InsertByRank(k, Tail(keys))

RECURSIVE SortedKeys(_)
SortedKeys(keys) ==
    IF keys = <<>> THEN <<>>
    ELSE InsertByRank(Head(keys), SortedKeys(Tail(keys)))

\* faulty variant: the keys are left in the order the map yielded them
KeysAsRanged(keys) == keys

\* `sort.Strings(keys)`
SortKeys(keys) == SortedKeys(keys)

\* buildCacheKey when `for k := range params` yields the keys in `order`
buildCacheKeyRanging(endpoint, prm, order) ==
    "esi:" \o endpoint \o ":" \o QueryParams(SortKeys(order), prm)

\* the orders in which ranging over a map with these keys may yield them
RangeOrders(names) ==
    {order \in [1..Cardinality(names) -> names] : Range(order) = names}

KeyEndpoints == {"characters/1/", "universe/structures/2/"}

\* the parameter maps: any of the names, each with one of two values
KeyParams ==
    UNION {[names -> {"tranquility", "2"}] : names \in SUBSET Range(ParamNamesSorted)}

NoKeyCall == [pc |-> "idle"]

InitKey ==
    ck \in [pc : {"first"}, endpoint : KeyEndpoints, params : KeyParams,
            order1 : {<<>>}, key1 : {""}, order2 : {<<>>}, key2 : {""}]

IdleKey == ck = NoKeyCall

\* a first call of buildCacheKey(endpoint, params)
BuildFirstKey ==
    /\ ck.pc = "first"
    /\ \E order \in RangeOrders(DOMAIN ck.params) :
        ck' = [ck EXCEPT !.pc = "second", !.order1 = order,
                         !.key1 = buildCacheKeyRanging(ck.endpoint, ck.params, order)]
    /\ UNCHANGED <<aggVars, drVars, cacheVars, retryVars, singleVars, pageKeyVars, locVars, uaVars,
                   repoVars, charVars, flatVars, dumpVars, metricVars>>

\* a second call with the same endpoint and the same parameter set
BuildSecondKey ==
    /\ ck.pc = "second"
    /\ \E order \in RangeOrders(DOMAIN ck.params) :
        ck' = [ck EXCEPT !.pc = "done", !.order2 = order,
                         !.key2 = buildCacheKeyRanging(ck.endpoint, ck.params, order)]
    /\ UNCHANGED <<aggVars, drVars, cacheVars, retryVars, singleVars, pageKeyVars, locVars, uaVars,
                   repoVars, charVars, flatVars, dumpVars, metricVars>>

NextKey == BuildFirstKey \/ BuildSecondKey

-----------------------------------------------------------------------------
(* zKillClient.BuildCacheKey and the key of GetSingleKillmail *)

\* faulty variant: the page index is left out of the key
BuildCacheKeyWithoutPage(apiType, entityType, entityID, year, month, pg) ==
    "zkill:" \o apiType \o ":" \o entityType \o "ID:" \o Itoa(entityID) \o ":"
        \o Itoa(year) \o ":" \o Pad2(month)

\* the key a page request is cached under, as fetchPageData builds it
PageCacheKey(apiType, entityType, entityID, year, month, pg) ==
    BuildCacheKey(apiType, entityType, entityID, year, month, pg)

\* GetSingleKillmail: fmt.Sprintf("zkill:single:killID:%d", killID)
SingleCacheKey(killID) == "zkill:single:killID:" \o Itoa(killID)

\* page requests: direction, kind, id, year, month and page, chosen so that
\* neighbouring numbers could run into each other were they not separated
KeyRequests ==
    [apiType : {"kills", "losses"}, entityType : {"character", "corporation"},
     entityID : {9, 99}, year : {2023, 2024}, month : {1, 11}, page : {1, 12}]

KeyKillIDs == {9, 99999}

NoPageKeys == [pc |-> "idle"]

InitPageKey ==
    pk \in [pc : {"first"}, a : KeyRequests, b : KeyRequests, killID : KeyKillIDs,
            keyA : {""}, keyB : {""}, single : {""}]

IdlePageKey == pk = NoPageKeys

\* fetchPageData builds the key of the first request; GetSingleKillmail builds
\* the key of the kill id
BuildFirstPageKey ==
    /\ pk.pc = "first"
    /\ pk' = [pk EXCEPT !.pc = "second",
                        !.keyA = PageCacheKey(pk.a.apiType, pk.a.entityType,
                                     pk.a.entityID, pk.a.year, pk.a.month, pk.a.page),
                        !.single = SingleCacheKey(pk.killID)]
    /\ UNCHANGED <<aggVars, drVars, cacheVars, retryVars, singleVars, keyVars,
                   locVars, uaVars, repoVars, charVars, flatVars,
                   dumpVars, metricVars>>

\* fetchPageData builds the key of the second request
BuildSecondPageKey ==
    /\ pk.pc = "second"
    /\ pk' = [pk EXCEPT !.pc = "done",
                        !.keyB = PageCacheKey(pk.b.apiType, pk.b.entityType,
                                     pk.b.entityID, pk.b.year, pk.b.month, pk.b.page)]
    /\ UNCHANGED <<aggVars, drVars, cacheVars, retryVars, singleVars, keyVars,
                   locVars, uaVars, repoVars, charVars, flatVars,
                   dumpVars, metricVars>>

NextPageKey == BuildFirstPageKey \/ BuildSecondPageKey

-----------------------------------------------------------------------------
(* Location resolution: esiService.resolveLocationSystemID over locCache *)

\* the goroutines that resolve locations at the same time
Callers == {1, 2}

LocationIDs == {60003760, 1000000001}

\* the locType a caller passes: "structure", "station", or something else
LocTypes == {"structure", "station", "unknown"}

SystemIDs == {30000142, 30002187}

\* the credential each caller passes
CallerToken(p) ==
    IF p = 1 THEN Token("accessA", "refreshA") ELSE Token("accessB", "refreshB")

\* `val, ok := locCache[key]`
NotCached == [ok |-> FALSE, val |-> 0]

Cached(v) == [ok |-> TRUE, val |-> v]

\* what the ESI client returns to GetStructure / GetStation: an error, bytes
\* that do not decode (stations), or a record with its SystemID
FetchOutcomes ==
    {[err |-> TRUE, SystemID |-> 0]} \cup {[err |-> FALSE, SystemID |-> v] : v \in SystemIDs}

NoReturn == [returned |-> FALSE]

Return(v, failed) == [returned |-> TRUE, val |-> v, err |-> failed]

InitLoc ==
    /\ locCache = [id \in LocationIDs |-> NotCached]
    /\ locCacheM = [readers |-> {}, writer |-> {}]
    /\ lp = [p \in Callers |-> [pc |-> "idle"]]
    /\ lastWriter = [id \in LocationIDs |-> {}]

IdleLoc ==
    /\ locCache = [id \in LocationIDs |-> NotCached]
    /\ locCacheM = [readers |-> {}, writer |-> {}]
    /\ lp = [p \in Callers |-> [pc |-> "off"]]
    /\ lastWriter = [id \in LocationIDs |-> {}]

\* faulty variant: the write lock is granted whoever holds the mutex
CanLockAlways(m) == TRUE

\* locCacheM.Lock() returns: nobody reads, nobody writes
CanLock(m) == m.readers = {} /\ m.writer = {}

\* locCacheM.RLock() returns: nobody writes
CanRLock(m) == m.writer = {}

\* faulty variant: the station fetch is made with the caller's credential
StationTokenOfCaller(token) == token

\* GetStation: `s.esiClient.GetBytes(ctx, endpoint, nil, nil)`
StationToken(token) == NoToken

\* the fetch resolveLocationSystemID goes for on a miss, and its credential
FetchFor(locType, id, token) ==
    IF locType = "structure"
    THEN [fetch |-> "structure", id |-> id, token |-> token]
    ELSE [fetch |-> "station", id |-> id, token |-> StationToken(token)]

\* faulty variant: a failed fetch is not returned, the call goes on to store
AfterFetchIgnoringError(o) == "set1"

\* where the call goes after the fetch: `if err != nil { return ... }`
AfterFetch(o) == IF o.err THEN "done" ELSE "set1"

\* a caller enters resolveLocationSystemID(ctx, locationID, locType, token)
ResolveCall(p) ==
    /\ lp[p].pc = "idle"
    /\ \E id \in LocationIDs, locType \in LocTypes :
        lp' = [lp EXCEPT ![p] =
                [pc |-> "get1", id |-> id, locType |-> locType,
                 token |-> CallerToken(p), val |-> 0, hit1 |-> FALSE,
                 hit2 |-> FALSE, fetches |-> <<>>, fetchFailed |-> FALSE,
                 writes |-> <<>>, ret |-> NoReturn]]
    /\ UNCHANGED <<locCache, locCacheM, lastWriter>>
    /\ UNCHANGED <<aggVars, drVars, cacheVars, retryVars, singleVars, keyVars,
                   pageKeyVars, uaVars, repoVars, charVars,
                   flatVars, dumpVars, metricVars>>

\* getCache: locCacheM.RLock(), in resolveLocationSystemID ("get1") and again
\* in GetStructure / GetStation ("get2")
GetCacheRLock(p) ==
    /\ lp[p].pc \in {"get1", "get2"}
    /\ CanRLock(locCacheM)
    /\ locCacheM' = [locCacheM EXCEPT !.readers = @ \cup {p}]
    /\ lp' = [lp EXCEPT ![p].pc = IF @ = "get1" THEN "get1cs" ELSE "get2cs"]
    /\ UNCHANGED <<locCache, lastWriter>>
    /\ UNCHANGED <<aggVars, drVars, cacheVars, retryVars, singleVars, keyVars,
                   pageKeyVars, uaVars, repoVars, charVars,
                   flatVars, dumpVars, metricVars>>

\* getCache in resolveLocationSystemID: read the table, RUnlock; on a hit
\* return the stored value, on a miss call GetStructure or GetStation
GetCacheRead1(p) ==
    /\ lp[p].pc = "get1cs"
    /\ locCacheM' = [locCacheM EXCEPT !.readers = @ \ {p}]
    /\ LET e == locCache[lp[p].id]
       IN  lp' = [lp EXCEPT ![p] =
                IF e.ok THEN [@ EXCEPT !.pc = "done", !.hit1 = TRUE, !.val = e.val,
                                       !.ret = Return(e.val, FALSE)]
                ELSE [@ EXCEPT !.pc = "get2"]]
    /\ UNCHANGED <<locCache, lastWriter>>
    /\ UNCHANGED <<aggVars, drVars, cacheVars, retryVars, singleVars, keyVars,
                   pageKeyVars, uaVars, repoVars, charVars,
                   flatVars, dumpVars, metricVars>>

\* getCache in GetStructure / GetStation: read the table, RUnlock; on a hit
\* return a record with the stored value to resolveLocationSystemID, which
\* stores it; on a miss go on to the fetch
GetCacheRead2(p) ==
    /\ lp[p].pc = "get2cs"
    /\ locCacheM' = [locCacheM EXCEPT !.readers = @ \ {p}]
    /\ LET e == locCache[lp[p].id]
       IN  lp' = [lp EXCEPT ![p] =
                IF e.ok THEN [@ EXCEPT !.pc = "set2", !.hit2 = TRUE, !.val = e.val]
                ELSE [@ EXCEPT !.pc = "fetch"]]
    /\ UNCHANGED <<locCache, lastWriter>>
    /\ UNCHANGED <<aggVars, drVars, cacheVars, retryVars, singleVars, keyVars,
                   pageKeyVars, uaVars, repoVars, charVars,
                   flatVars, dumpVars, metricVars>>

\* GetStructure: GetJSON with the caller's token; GetStation: GetBytes with
\* no token, then json.Unmarshal. An error is returned to the caller of
\* resolveLocationSystemID as it is.
LocationFetch(p) ==
    /\ lp[p].pc = "fetch"
    /\ \E o \in FetchOutcomes :
        lp' = [lp EXCEPT ![p] =
                [@ EXCEPT !.fetches = Append(@, FetchFor(lp[p].locType, lp[p].id,
                                                         lp[p].token)),
                          !.fetchFailed = o.err,
                          !.val = o.SystemID,
                          !.pc = AfterFetch(o),
                          !.ret = IF AfterFetch(o) = "done" THEN Return(0, TRUE)
                                  ELSE @]]
    /\ UNCHANGED <<locCache, locCacheM, lastWriter>>
    /\ UNCHANGED <<aggVars, drVars, cacheVars, retryVars, singleVars, keyVars,
                   pageKeyVars, uaVars, repoVars, charVars,
                   flatVars, dumpVars, metricVars>>

\* setCache: locCacheM.Lock(), in GetStructure / GetStation ("set1") and in
\* resolveLocationSystemID ("set2")
SetCacheLock(p) ==
    /\ lp[p].pc \in {"set1", "set2"}
    /\ CanLock(locCacheM)
    /\ locCacheM' = [locCacheM EXCEPT !.writer = @ \cup {p}]
    /\ lp' = [lp EXCEPT ![p].pc = IF @ = "set1" THEN "set1cs" ELSE "set2cs"]
    /\ UNCHANGED <<locCache, lastWriter>>
    /\ UNCHANGED <<aggVars, drVars, cacheVars, retryVars, singleVars, keyVars,
                   pageKeyVars, uaVars, repoVars, charVars,
                   flatVars, dumpVars, metricVars>>

\* setCache: `locCache[key] = val`, Unlock; after the one in
\* resolveLocationSystemID the call returns the value
SetCacheWrite(p) ==
    /\ lp[p].pc \in {"set1cs", "set2cs"}
    /\ locCache' = [locCache EXCEPT ![lp[p].id] = Cached(lp[p].val)]
    /\ locCacheM' = [locCacheM EXCEPT !.writer = @ \ {p}]
    /\ lastWriter' = [lastWriter EXCEPT ![lp[p].id] = {p}]
    /\ lp' = [lp EXCEPT ![p] =
                IF lp[p].pc = "set1cs"
                THEN [@ EXCEPT !.pc = "set2",
                               !.writes = Append(@, [id |-> lp[p].id, val |-> lp[p].val])]
                ELSE [@ EXCEPT !.pc = "done",
                               !.writes = Append(@, [id |-> lp[p].id, val |-> lp[p].val]),
                               !.ret = Return(lp[p].val, FALSE)]]
    /\ UNCHANGED <<aggVars, drVars, cacheVars, retryVars, singleVars, keyVars,
                   pageKeyVars, uaVars, repoVars, charVars,
                   flatVars, dumpVars, metricVars>>

NextLoc ==
    \E p \in Callers :
        \/ ResolveCall(p)
        \/ GetCacheRLock(p)
        \/ GetCacheRead1(p)
        \/ GetCacheRead2(p)
        \/ LocationFetch(p)
        \/ SetCacheLock(p)
        \/ SetCacheWrite(p)

-----------------------------------------------------------------------------
(* The identifying header: userAgentRoundTripper and NewEveHttpClient *)

\* the *http.Client values callers hand to NewEveHttpClient
BaseClients == {"base1", "base2"}

\* the HttpClient values built, in the order of their construction
EveClients == {"client1", "client2"}

UserAgents == {"MyEveApp/1.0", "TestUserAgent"}

\* the http.Header values of the caller's request: per key, the list of values
RequestHeaders ==
    {[k \in {"User-Agent", "Accept"} |->
        IF k = "User-Agent" THEN u ELSE a] :
        u \in {<<>>, <<"curl/8.0">>, <<"curl/8.0", "TestUserAgent">>},
        a \in {<<>>, <<"application/json">>}}

\* a fresh `&http.Client{}`: Transport nil, Timeout 0. The Transport is kept
\* as the list of the UserAgent fields of the userAgentRoundTrippers wrapped
\* around http.DefaultTransport, the outermost first.
FreshBase == [Transport |-> <<>>, TimeoutSeconds |-> 0]

NoEveClient == [built |-> FALSE]

NoRequestSent == [sent |-> FALSE]

\* http.Header.Set: the key's values are replaced by the one value
HeaderSet(h, key, value) == [h EXCEPT ![key] = <<value>>]

\* userAgentRoundTripper.RoundTrip up to the call of Wrapped.RoundTrip: clone
\* the request, set the header on the clone, forward the clone
RoundTripStep(req, userAgent) ==
    [original |-> req, forwarded |-> HeaderSet(req, "User-Agent", userAgent)]

\* the request http.DefaultTransport gets after the wrappers of a Transport
\* have run one inside the other
RECURSIVE RoundTrip(_, _)
RoundTrip(transport, req) ==
    IF transport = <<>> THEN req
    ELSE RoundTrip(Tail(transport), RoundTripStep(req, Head(transport)).forwarded)

InitUa ==
    ua = [bases |-> [b \in BaseClients |-> FreshBase],
          clients |-> [c \in EveClients |-> NoEveClient],
          last |-> NoRequestSent]

IdleUa ==
    ua = [bases |-> [b \in BaseClients |-> FreshBase],
          clients |-> [c \in EveClients |-> NoEveClient],
          last |-> [sent |-> FALSE, idle |-> TRUE]]

\* NewEveHttpClient(userAgent, base): base.Transport (http.DefaultTransport
\* when nil) is wrapped in place, base.Timeout is set, and the new client
\* keeps the pointer to base
NewEveHttpClientCall ==
    \E c \in EveClients, b \in BaseClients, userAgent \in UserAgents :
        /\ ~ua.clients[c].built
        /\ c = "client2" => ua.clients["client1"].built
        /\ ua' = [ua EXCEPT
                    !.bases[b] = [Transport |-> <<userAgent>> \o @.Transport,
                                  TimeoutSeconds |-> 10],
                    !.clients[c] = [built |-> TRUE, userAgent |-> userAgent,
                                    client |-> b]]
    /\ UNCHANGED <<aggVars, drVars, cacheVars, retryVars, singleVars, keyVars,
                   pageKeyVars, locVars, repoVars, charVars,
                   flatVars, dumpVars, metricVars>>

\* httpClient.Do(req): h.client.Do(req) sends the request through the
\* Transport its base client has now
HttpClientDo ==
    \E c \in EveClients, h \in RequestHeaders :
        /\ ua.clients[c].built
        /\ LET transport == ua.bases[ua.clients[c].client].Transport
           IN  ua' = [ua EXCEPT !.last =
                        [sent |-> TRUE, through |-> c, header |-> h,
                         callerAfter |-> RoundTripStep(h, Head(transport)).original,
                         wire |-> RoundTrip(transport, h)]]
    /\ UNCHANGED <<aggVars, drVars, cacheVars, retryVars, singleVars, keyVars,
                   pageKeyVars, locVars, repoVars, charVars,
                   flatVars, dumpVars, metricVars>>

NextUa == NewEveHttpClientCall \/ HttpClientDo

-----------------------------------------------------------------------------
(* The cache repository: cacheStore, a go-cache behind Get / Set / Delete *)

\* bound: ticks of the clock, one tick being 30 minutes
MaxClock == 3

RepoKeys == {"foo", "other"}

\* []byte values, as strings
RepoValues == {"bar", "baz"}

\* const DefaultExpiration = 30 * time.Minute, in ticks
DefaultExpiration == 1

\* the expirations callers pass, in ticks: 0 (the cache's default), one hour,
\* and a negative one (no expiration)
RepoExpirations == {0, 2, -1}

NoItem == [present |-> FALSE]

\* a stored item: the bytes, and the tick after which it has expired
\* (never, when expires is FALSE)
Item(v, expires, at) == [present |-> TRUE, value |-> v, expires |-> expires, at |-> at]

\* faulty variant: an item already stored under the key is kept (go-cache's
\* Add in the place of Set)
StoreSetKeepingFirst(store, k, v, d, now) ==
    LET e == IF d = 0 THEN DefaultExpiration ELSE d
    IN  IF store[k].present THEN store
        ELSE [store EXCEPT ![k] = IF e > 0 THEN Item(v, TRUE, now + e)
                                  ELSE Item(v, FALSE, 0)]

\* cacheStore.Set: c.cache.Set(key, value, expiration) replaces the item; an
\* expiration of 0 means the default, a negative one none
StoreSet(store, k, v, d, now) ==
    LET e == IF d = 0 THEN DefaultExpiration ELSE d
    IN  [store EXCEPT ![k] = IF e > 0 THEN Item(v, TRUE, now + e)
                             ELSE Item(v, FALSE, 0)]

\* cacheStore.Get: the value and true when the key holds an item that has not
\* expired, else nil and false
StoreGet(store, k, now) ==
    IF store[k].present /\ ~(store[k].expires /\ now > store[k].at)
    THEN [value |-> store[k].value, found |-> TRUE]
    ELSE [value |-> "", found |-> FALSE]

\* cacheStore.Delete: c.cache.Delete(key)
StoreDelete(store, k) == [store EXCEPT ![k] = NoItem]

InitRepo ==
    repo = [store |-> [k \in RepoKeys |-> NoItem], now |-> 0,
            last |-> [op |-> "none"],
            written |-> [k \in RepoKeys |-> [some |-> FALSE]]]

IdleRepo ==
    repo = [store |-> [k \in RepoKeys |-> NoItem], now |-> 0,
            last |-> [op |-> "off"],
            written |-> [k \in RepoKeys |-> [some |-> FALSE]]]

\* the operation before a Get, without what it had recorded of its own past
OpBefore(last) ==
    IF last.op = "Get" THEN [op |-> "Get", key |-> last.key] ELSE last

RepoSet ==
    \E k \in RepoKeys, v \in RepoValues, d \in RepoExpirations :
        repo' = [repo EXCEPT
                    !.store = StoreSet(repo.store, k, v, d, repo.now),
                    !.last = [op |-> "Set", key |-> k, value |-> v],
                    !.written[k] = [some |-> TRUE, value |-> v]]
    /\ UNCHANGED <<aggVars, drVars, cacheVars, retryVars, singleVars, keyVars,
                   pageKeyVars, locVars, uaVars, charVars, flatVars,
                   dumpVars, metricVars>>

RepoGet ==
    \E k \in RepoKeys :
        repo' = [repo EXCEPT
                    !.last = [op |-> "Get", key |-> k,
                              result |-> StoreGet(repo.store, k, repo.now),
                              after |-> OpBefore(repo.last)]]
    /\ UNCHANGED <<aggVars, drVars, cacheVars, retryVars, singleVars, keyVars,
                   pageKeyVars, locVars, uaVars, charVars, flatVars,
                   dumpVars, metricVars>>

RepoDelete ==
    \E k \in RepoKeys :
        repo' = [repo EXCEPT
                    !.store = StoreDelete(repo.store, k),
                    !.last = [op |-> "Delete", key |-> k],
                    !.written[k] = [some |-> FALSE]]
    /\ UNCHANGED <<aggVars, drVars, cacheVars, retryVars, singleVars, keyVars,
                   pageKeyVars, locVars, uaVars, charVars, flatVars,
                   dumpVars, metricVars>>

\* time passes
RepoTick ==
    /\ repo.now < MaxClock
    /\ repo' = [repo EXCEPT !.now = @ + 1, !.last = [op |-> "none"]]
    /\ UNCHANGED <<aggVars, drVars, cacheVars, retryVars, singleVars, keyVars,
                   pageKeyVars, locVars, uaVars, charVars, flatVars,
                   dumpVars, metricVars>>

NextRepo == RepoSet \/ RepoGet \/ RepoDelete \/ RepoTick

-----------------------------------------------------------------------------
(* esiService.GetCharacterInfo *)

\* bound: calls one caller makes one after the other
MaxCharacterCalls == 2

CharacterIDs == {1001, 1002}

\* common.JSONUnmarshal failed
UnmarshalError == [type |-> "json", StatusCode |-> 0, Body |-> ""]

\* what esiClient.GetJSON may return to GetCharacterInfo (token nil): nil and
\* the decoded character, an HTTPError for a status other than 200, an error
\* of the transport or of the read, or a decoding error
GetJSONOutcomes ==
    {[err |-> NoErr, char |-> [CharacterID |-> id]] : id \in CharacterIDs}
        \cup {[err |-> HTTPError(st, b), char |-> [CharacterID |-> 0]] :
                st \in Statuses \ {200}, b \in Bodies}
        \cup {[err |-> e, char |-> [CharacterID |-> 0]] :
                e \in {ExecuteError, ReadBodyError, UnmarshalError}}

\* err.Error(), as the list of its parts
ErrorParts(e) ==
    IF e.type = "HTTPError"
    THEN <<"unexpected status code", ": ", Itoa(e.StatusCode), ", body: ", e.Body>>
    ELSE <<e.type>>

\* isHttpError(src, tgt): strings.Contains(src.Error(), "unexpected status
\* code"); tgt is not assigned
isHttpError(src) == \E i \in 1..Len(ErrorParts(src)) :
                        ErrorParts(src)[i] = "unexpected status code"

\* `var httpErr *common.HTTPError`: a nil pointer
NilHTTPError == [nil |-> TRUE]

\* GetCharacterInfo after GetJSON returned: `isHttpError(err, httpErr) &&
\* httpErr.StatusCode == http.StatusNotFound` reads a field through httpErr
\* when isHttpError is true
GetCharacterInfo(r) ==
    LET httpErr == NilHTTPError
    IN  IF r.err = NoErr THEN [kind |-> "char", char |-> r.char, err |-> NoErr]
        ELSE IF ~isHttpError(r.err)
        THEN [kind |-> "error", char |-> [CharacterID |-> 0], err |-> r.err]
        ELSE IF httpErr.nil
        THEN [kind |-> "panic", char |-> [CharacterID |-> 0], err |-> NoErr]
        ELSE [kind |-> "error", char |-> [CharacterID |-> 0], err |-> r.err]

InitChar == ci = [log |-> <<>>, running |-> TRUE]

IdleChar == ci = [log |-> <<>>, running |-> FALSE]

\* the caller asks for one more character; a panic ends the caller
GetCharacterInfoCall ==
    /\ ci.running
    /\ Len(ci.log) < MaxCharacterCalls
    /\ \E id \in CharacterIDs, r \in GetJSONOutcomes :
        /\ (r.err = NoErr => r.char.CharacterID = id)
        /\ LET out == GetCharacterInfo(r)
           IN  ci' = [log |-> Append(ci.log, [characterID |-> id, getJSON |-> r,
                                               out |-> out]),
                      running |-> out.kind # "panic"]
    /\ UNCHANGED <<aggVars, drVars, cacheVars, retryVars, singleVars, keyVars,
                   pageKeyVars, locVars, uaVars, repoVars, flatVars,
                   dumpVars, metricVars>>

NextChar == GetCharacterInfoCall

-----------------------------------------------------------------------------
(* model.ConvertToFlattened *)

\* model.EsiKillMail values; Victim and Attackers by the character ids in them
EsiKillMailInputs ==
    [KillMailID : {111, 222}, KillMailTime : {"2023-10-01T10:00:00Z", "2023-10-02T11:30:00Z"},
     SolarSystemID : {30000142, 30002187},
     Victim : {[CharacterID |-> 9001], [CharacterID |-> 9002]},
     Attackers : {<<>>, <<[CharacterID |-> 9003]>>}]

\* model.ZKB values; the float64 amounts in whole ISK
ZKBInputs ==
    [LocationID : {40009077, 40009078}, Hash : {"a", "b"}, FittedValue : {100, 150},
     DroppedValue : {10}, DestroyedValue : {90, 140}, TotalValue : {100, 150},
     Points : {1, 7}, NPC : BOOLEAN, Solo : BOOLEAN, Awox : {FALSE}]
        \cup
    [LocationID : {40009077}, Hash : {"a"}, FittedValue : {100},
     DroppedValue : {10, 20}, DestroyedValue : {90}, TotalValue : {100},
     Points : {1}, NPC : {FALSE}, Solo : {FALSE}, Awox : BOOLEAN]

\* model.ZkillMail values; the record's own id need not be the detail's
ZkillMailInputs == [KillMailID : {111, 333}, ZKB : ZKBInputs]

\* faulty variant: the kill id is taken from the summary record
ConvertToFlattenedIdFromSummary(esi, zkill) ==
    [KillMailID     |-> zkill.KillMailID,
     KillMailTime   |-> esi.KillMailTime,
     SolarSystemID  |-> esi.SolarSystemID,
     Victim         |-> esi.Victim,
     Attackers      |-> esi.Attackers,
     LocationID     |-> zkill.ZKB.LocationID,
     Hash           |-> zkill.ZKB.Hash,
     FittedValue    |-> zkill.ZKB.FittedValue,
     DroppedValue   |-> zkill.ZKB.DroppedValue,
     DestroyedValue |-> zkill.ZKB.DestroyedValue,
     TotalValue     |-> zkill.ZKB.TotalValue,
     Points         |-> zkill.ZKB.Points,
     NPC            |-> zkill.ZKB.NPC,
     Solo           |-> zkill.ZKB.Solo,
     Awox           |-> zkill.ZKB.Awox]

\* ConvertToFlattened(esi, zkill): one struct literal, no error result
ConvertToFlattened(esi, zkill) ==
    [KillMailID     |-> esi.KillMailID,
     KillMailTime   |-> esi.KillMailTime,
     SolarSystemID  |-> esi.SolarSystemID,
     Victim         |-> esi.Victim,
     Attackers      |-> esi.Attackers,
     LocationID     |-> zkill.ZKB.LocationID,
     Hash           |-> zkill.ZKB.Hash,
     FittedValue    |-> zkill.ZKB.FittedValue,
     DroppedValue   |-> zkill.ZKB.DroppedValue,
     DestroyedValue |-> zkill.ZKB.DestroyedValue,
     TotalValue     |-> zkill.ZKB.TotalValue,
     Points         |-> zkill.ZKB.Points,
     NPC            |-> zkill.ZKB.NPC,
     Solo           |-> zkill.ZKB.Solo,
     Awox           |-> zkill.ZKB.Awox]

InitFlat == cf = [pc |-> "idle"]

IdleFlat == cf = [pc |-> "off"]

\* a caller converts a detail record and a summary record
ConvertCall ==
    /\ cf.pc = "idle"
    /\ \E esi \in EsiKillMailInputs, zkill \in ZkillMailInputs :
        cf' = [pc |-> "done", esi |-> esi, zkill |-> zkill,
               out |-> <<ConvertToFlattened(esi, zkill)>>]
    /\ UNCHANGED <<aggVars, drVars, cacheVars, retryVars, singleVars, keyVars,
                   pageKeyVars, locVars, uaVars, repoVars, charVars,
                   dumpVars, metricVars>>

NextFlat == ConvertCall

-----------------------------------------------------------------------------
(* zKillService.AggregateKillMailDumps *)

\* bound: records in one of the slices given
MaxDumpLen == 3

\* a nil []model.FlattenedKillMail
NilSlice == [nil |-> TRUE, elems |-> <<>>]

Slice(elems) == [nil |-> FALSE, elems |-> elems]

\* the slices callers pass: nil, empty, or records told apart by their ids
DumpInputs ==
    {NilSlice} \cup {Slice(e) : e \in SeqsUpTo({[KillMailID |-> id] : id \in KillIds},
                                                MaxDumpLen)}

RECURSIVE WithoutIds(_, _)
WithoutIds(elems, ids) ==
    IF elems = <<>> THEN <<>>
    ELSE IF Head(elems).KillMailID \in ids THEN WithoutIds(Tail(elems), ids)
    ELSE <<Head(elems)>> \o WithoutIds(Tail(elems), ids)

\* faulty variant: records of addition whose id is in base are left out
AggregateKillMailDumpsDeduplicating(base, addition) ==
    IF base.nil THEN addition
    ELSE IF addition.nil THEN base
    ELSE Slice(base.elems \o WithoutIds(addition.elems,
                    {base.elems[i].KillMailID : i \in 1..Len(base.elems)}))

\* AggregateKillMailDumps(base, addition)
AggregateKillMailDumps(base, addition) ==
    IF base.nil THEN addition
    ELSE IF addition.nil THEN base
    ELSE Slice(base.elems \o addition.elems)

InitDump == ad = [pc |-> "idle"]

IdleDump == ad = [pc |-> "off"]

AggregateCall ==
    /\ ad.pc = "idle"
    /\ \E base \in DumpInputs, addition \in DumpInputs :
        ad' = [pc |-> "done", base |-> base, addition |-> addition,
               out |-> AggregateKillMailDumps(base, addition)]
    /\ UNCHANGED <<aggVars, drVars, cacheVars, retryVars, singleVars, keyVars,
                   pageKeyVars, locVars, uaVars, repoVars, charVars, flatVars,
                   metricVars>>

NextDump == AggregateCall

-----------------------------------------------------------------------------
(* The ESI client's request counters *)

\* the DoRequest calls started in a run
MaxMetricCalls == 3

\* the goroutines that call DoRequest on the one client
Goroutines == {"g1", "g2"}

\* var ( totalCalls; notFoundCount; successCount; failCount )
Counters == {"total", "notFound", "success", "fail"}

ZeroCounters == [c \in Counters |-> 0]

\* what the calls are given: no token or one that can be refreshed; a
\* response of each counted kind, a refused one, or a transport error; a
\* refresh that succeeds or fails
MetricTokens == {NoToken, Token("oldAccess", "oldRefresh")}

MetricNetOutcomes ==
    {net \in NetOutcomes :
        \/ net.kind = "doErr"
        \/ net.kind = "resp" /\ net.body = "b1" /\ net.status \in {200, 204, 401, 404, 500}}

MetricRefreshResults == {ro \in RefreshResults : ro.token.AccessToken # "" \/ ro.err}

\* faulty variant: totalCalls is bumped on every return, early ones included
MetricAddsOnEveryReturn(out) ==
    IF out.metric = "none" THEN <<"total">> ELSE <<"total", out.metric>>

\* the atomic adds a DoRequest call performs, in order: none when it returns
\* early (transport error, failed refresh); otherwise totalCalls and then the
\* counter the metrics switch picks for the final status
MetricAdds(out) ==
    IF out.metric = "none" THEN <<>> ELSE <<"total", out.metric>>

\* a goroutine that is not in DoRequest and has not called it yet
NotCalling == [pc |-> "idle"]

InitMetrics ==
    \E auth \in BOOLEAN :
        mt = [counters |-> ZeroCounters,
              settled  |-> ZeroCounters,
              started  |-> 0,
              auth     |-> auth,
              g        |-> [p \in Goroutines |-> NotCalling]]

IdleMetrics ==
    mt = [counters |-> ZeroCounters,
          settled  |-> ZeroCounters,
          started  |-> 0,
          auth     |-> FALSE,
          g        |-> [p \in Goroutines |-> NotCalling]]

\* the counters once the adds of the call a goroutine left behind are no
\* longer kept with the goroutine
Settle(settled, r) ==
    IF r.pc = "idle" THEN settled
    ELSE [c \in Counters |-> settled[c] + r.added[c]]

\* a goroutine runs DoRequest up to the `// metrics` line: the sends and the
\* refresh touch no counter; an early return ends the call here
DoRequestRun ==
    /\ mt.started < MaxMetricCalls
    /\ \E p \in Goroutines, token \in MetricTokens, net1 \in MetricNetOutcomes,
          ro \in MetricRefreshResults, net2 \in MetricNetOutcomes :
        LET out  == DoRequest(token, mt.auth, "", <<>>, net1, ro, net2)
            adds == MetricAdds(out)
        IN  /\ mt.g[p].pc \in {"idle", "returned"}
            /\ mt' = [mt EXCEPT
                 !.started = @ + 1,
                 !.settled = Settle(@, mt.g[p]),
                 !.g[p] = [pc    |-> IF adds = <<>> THEN "returned" ELSE "metrics",
                           todo  |-> adds,
                           added |-> ZeroCounters,
                           sends |-> Len(out.sent),
                           final |-> IF out.err.type \in {"nil", "HTTPError"}
                                     THEN IF Len(out.sent) = 2 THEN net2.status
                                          ELSE net1.status
                                     ELSE 0,
                           err   |-> out.err.type]]
    /\ UNCHANGED <<aggVars, drVars, cacheVars, retryVars, singleVars, keyVars,
                   pageKeyVars, locVars, uaVars, repoVars, charVars, flatVars, dumpVars>>

\* one atomic.AddInt64 of a call that is in its metrics block; after the last
\* one the call returns
AtomicAddInt64 ==
    /\ \E p \in Goroutines :
        /\ mt.g[p].pc = "metrics"
        /\ LET c == Head(mt.g[p].todo)
           IN  mt' = [mt EXCEPT
                 !.counters[c] = @ + 1,
                 !.g[p].added[c] = @ + 1,
                 !.g[p].todo = Tail(@),
                 !.g[p].pc = IF Len(mt.g[p].todo) = 1 THEN "returned" ELSE "metrics"]
    /\ UNCHANGED <<aggVars, drVars, cacheVars, retryVars, singleVars, keyVars,
                   pageKeyVars, locVars, uaVars, repoVars, charVars, flatVars, dumpVars>>

NextMetrics ==
    \/ DoRequestRun
    \/ AtomicAddInt64

-----------------------------------------------------------------------------
(* Cached reads: esiClient.GetBytes and zKillClient.fetchPageData *)

Endpoints == {"characters/1/"}

GetBytesParams ==
    {NoParams, [datasource |-> "tranquility"],
     [page |-> "2", datasource |-> "tranquility"]}

GetBytesTokens == {NoToken, Token("oldAccess", "oldRefresh")}

\* the page requests callers make: (apiType, entityType, id, page, year, month)
PageRequests ==
    {[apiType |-> "kills", entityType |-> "character", entityID |-> 999,
      page |-> 1, year |-> 2023, month |-> 10],
     [apiType |-> "losses", entityType |-> "corporation", entityID |-> 98,
      page |-> 12, year |-> 2023, month |-> 9]}

\* time.Now().Date(), as (year, month)
Nows == {[year |-> 2023, month |-> 10], [year |-> 2024, month |-> 10]}

PageKey(q) ==
    BuildCacheKey(q.apiType, q.entityType, q.entityID, q.year, q.month, q.page)

EsiKeys == {buildCacheKey(e, WithDatasource(prm)) : e \in Endpoints, prm \in GetBytesParams}

ZkillKeys == {PageKey(q) : q \in PageRequests}

CacheKeys == EsiKeys \cup ZkillKeys

\* what zkillboard may answer to doGetKillMails
ZkillOutcomes ==
    {[kind |-> "doErr", status |-> 0, decodes |-> FALSE, mails |-> <<>>],
     [kind |-> "resp", status |-> 200, decodes |-> FALSE, mails |-> <<>>],
     [kind |-> "resp", status |-> 429, decodes |-> FALSE, mails |-> <<>>],
     [kind |-> "resp", status |-> 500, decodes |-> FALSE, mails |-> <<>>]}
        \cup {[kind |-> "resp", status |-> 200, decodes |-> TRUE, mails |-> m] :
                m \in SeqsUpTo(ZkillMails, 1)}

\* doGetKillMails: one request, no retry; 200 and a decodable body, or an error
doGetKillMails(net) ==
    IF net.kind = "doErr" THEN [mails |-> <<>>, err |-> "request failed"]
    ELSE IF net.status # 200 THEN [mails |-> <<>>, err |-> "non-200 response from zKill"]
    ELSE IF ~net.decodes THEN [mails |-> <<>>, err |-> "failed to decode zkill JSON"]
    ELSE [mails |-> net.mails, err |-> ""]

NoRead == [kind |-> "none", pc |-> "idle"]

None == [some |-> FALSE]

Some(bytes, oneSend) == [some |-> TRUE, content |-> bytes, oneSend |-> oneSend]

InitCache ==
    /\ client \in {"esi", "zkill"}
    /\ cache = [k \in CacheKeys |-> NoEntry]
    /\ rd = NoRead
    /\ lastOk = [k \in CacheKeys |-> None]

IdleCache ==
    /\ client = "none"
    /\ cache = [k \in CacheKeys |-> NoEntry]
    /\ rd = NoRead
    /\ lastOk = [k \in CacheKeys |-> None]

\* faulty variant: the cache is not consulted
CacheLookupSkipped(key) == NoEntry

\* cache.Get(key)
CacheLookup(key) == cache[key]

\* faulty variant: a cached response is handed only to calls with a credential
HitServedToTokenHolders(token) == ~token.nil

\* `if cached, found := c.cache.Get(cacheKey); found { return cached, nil }`:
\* the token plays no part in serving a hit
HitServed(token) == TRUE

\* GetBytes up to the retry loop, for one call: default the datasource, build
\* the key from the endpoint and the parameters, and look the key up
GetBytesEntry(endpoint, token, prm) ==
    LET key == buildCacheKey(endpoint, WithDatasource(prm))
        e   == CacheLookup(key)
        r   == [kind |-> "GetBytes", endpoint |-> endpoint, params |-> prm,
                token |-> token, key |-> key, expect |-> lastOk[key],
                i |-> 0, delay |-> baseDelay, sends |-> 0, refreshes |-> 0,
                ctxDone |-> FALSE, failedBeforeCancel |-> 0,
                invokedAfterCancel |-> 0]
    IN  IF e.found /\ HitServed(token)
        THEN r @@ [pc |-> "done", hit |-> TRUE, data |-> e.value, err |-> NoErr]
        ELSE r @@ [pc |-> "retrying", hit |-> FALSE, data |-> RawBytes(NoData),
                   err |-> NoErr]

\* GetBytes up to the retry loop: default the datasource, build the key, and
\* return the cached bytes on a hit; on a miss enter RetryWithExponentialBackoff
GetBytesCall ==
    /\ client = "esi"
    /\ rd.pc # "retrying"
    /\ \E endpoint \in Endpoints, token \in GetBytesTokens, prm \in GetBytesParams :
        rd' = GetBytesEntry(endpoint, token, prm)
    /\ UNCHANGED <<client, cache, lastOk, authClient, dr>>
    /\ UNCHANGED <<aggVars, retryVars, singleVars, keyVars, pageKeyVars, locVars, uaVars,
                   repoVars, charVars, flatVars, dumpVars, metricVars>>

\* faulty variant: the body of a failed response is stored too
StoreAlways(c, key, out) ==
    IF out.err = NoErr
    THEN [c EXCEPT ![key] = Entry(RawBytes(out.data), defaultCacheExpiration)]
    ELSE [c EXCEPT ![key] = Entry(RawBytes(out.err.Body), defaultCacheExpiration)]

\* the cache after GetBytes's operation ran DoRequest with outcome out:
\* `c.cache.Set(cacheKey, respBytes, defaultCacheExpiration)` follows the
\* `if err != nil { return nil, err }`
StoreOnSuccess(c, key, out) ==
    IF out.err = NoErr
    THEN [c EXCEPT ![key] = Entry(RawBytes(out.data), defaultCacheExpiration)]
    ELSE c

\* what c.httpClient.Do may yield for a request built with the call's
\* context: anything while the context is live, an error once it is done
NetUnder(ctxDone) ==
    IF ctxDone THEN {net \in NetOutcomes : net.kind = "doErr"} ELSE NetOutcomes

\* one turn of the retry loop around GetBytes's operation: DoRequest with the
\* caller's token; on success store the bytes and return them; on a retryable
\* error sleep and go round again, unless it was the last attempt; otherwise
\* return the error
GetBytesAttempt ==
    /\ rd.pc = "retrying"
    /\ \E net1 \in NetUnder(rd.ctxDone), ro \in RefreshResults,
          net2 \in NetUnder(rd.ctxDone) :
        LET out == DoRequest(rd.token, authClient, "", <<>>, net1, ro, net2)
            r   == [rd EXCEPT !.sends = @ + Len(out.sent),
                              !.refreshes = @ + Len(out.refreshArgs),
                              !.invokedAfterCancel =
                                  IF rd.ctxDone THEN @ + 1 ELSE @]
        IN  /\ cache' = StoreOnSuccess(cache, rd.key, out)
            /\ IF out.err = NoErr
               THEN /\ rd' = [r EXCEPT !.pc = "done", !.data = RawBytes(out.data)]
                    /\ lastOk' = [lastOk EXCEPT ![rd.key] =
                                    Some(RawBytes(out.data), r.sends = 1)
                                        @@ [token |-> rd.token]]
               ELSE IF RetryGoesOn(rd.i, out.err)
               THEN /\ rd' = [r EXCEPT !.i = @ + 1, !.delay = NextDelay(@)]
                    /\ UNCHANGED lastOk
               ELSE /\ rd' = [r EXCEPT !.pc = "done", !.err = out.err]
                    /\ UNCHANGED lastOk
    /\ UNCHANGED <<client, authClient, dr>>
    /\ UNCHANGED <<aggVars, retryVars, singleVars, keyVars, pageKeyVars, locVars, uaVars,
                   repoVars, charVars, flatVars, dumpVars, metricVars>>

\* faulty variant: the month alone decides, whatever the year
PageExpirationByMonthOnly(q, now) ==
    IF q.month = now.month THEN currentMonthExpiration ELSE defaultCacheExpiration

\* the TTL fetchPageData writes a page with: `exp := zkillCacheExpiration`,
\* and 24 hours when isCurrentMonth
PageExpiration(q, now) ==
    IF q.year = now.year /\ q.month = now.month THEN currentMonthExpiration
    ELSE defaultCacheExpiration

\* fetchPageData: return the cached page when it is there and decodes;
\* otherwise one request, and on success store the page with the TTL of its
\* month
FetchPageData ==
    /\ client = "zkill"
    /\ \E q \in PageRequests, now \in Nows, net \in ZkillOutcomes :
        LET key == PageKey(q)
            e   == CacheLookup(key)
            dec == Unmarshal(e.value)
            got == doGetKillMails(net)
            exp == PageExpiration(q, now)
            r   == [kind |-> "fetchPageData", pc |-> "done", req |-> q,
                    now |-> now, key |-> key, expect |-> lastOk[key],
                    refreshes |-> 0]
        IN  IF e.found /\ dec.ok
            THEN /\ rd' = r @@ [hit |-> TRUE, sends |-> 0, status |-> 0,
                                mails |-> dec.mails, err |-> ""]
                 /\ UNCHANGED <<cache, lastOk>>
            ELSE IF got.err # ""
            THEN /\ rd' = r @@ [hit |-> FALSE, sends |-> 1, status |-> net.status,
                                mails |-> <<>>, err |-> got.err]
                 /\ UNCHANGED <<cache, lastOk>>
            ELSE /\ rd' = r @@ [hit |-> FALSE, sends |-> 1, status |-> net.status,
                                mails |-> got.mails, err |-> ""]
                 /\ cache' = [cache EXCEPT ![key] = Entry(Marshal(got.mails), exp)]
                 /\ lastOk' = [lastOk EXCEPT ![key] = Some(Marshal(got.mails), TRUE)]
    /\ UNCHANGED <<client, authClient, dr>>
    /\ UNCHANGED <<aggVars, retryVars, singleVars, keyVars, pageKeyVars, locVars, uaVars,
                   repoVars, charVars, flatVars, dumpVars, metricVars>>

\* an entry leaves the cache: its TTL has passed, or it is deleted
\* (cache.Delete, RemoveCacheEntry)
CacheEntryRemoved ==
    /\ \E k \in CacheKeys :
        /\ cache[k].found
        /\ cache' = [cache EXCEPT ![k] = NoEntry]
        /\ lastOk' = [lastOk EXCEPT ![k] = None]
    /\ UNCHANGED <<client, rd, authClient, dr>>
    /\ UNCHANGED <<aggVars, retryVars, singleVars, keyVars, pageKeyVars, locVars, uaVars,
                   repoVars, charVars, flatVars, dumpVars, metricVars>>

\* the context given to GetBytes is cancelled while the retry loop runs:
\* before the first attempt, or during the sleep between two attempts
CancelGetBytesContext ==
    /\ rd.pc = "retrying"
    /\ ~rd.ctxDone
    /\ rd' = [rd EXCEPT !.ctxDone = TRUE, !.failedBeforeCancel = rd.i]
    /\ UNCHANGED <<client, cache, lastOk, authClient, dr>>
    /\ UNCHANGED <<aggVars, retryVars, singleVars, keyVars, pageKeyVars, locVars, uaVars,
                   repoVars, charVars, flatVars, dumpVars, metricVars>>

NextCache ==
    \/ GetBytesCall
    \/ GetBytesAttempt
    \/ CancelGetBytesContext
    \/ FetchPageData
    \/ CacheEntryRemoved

-----------------------------------------------------------------------------
(* Claims about DoRequest *)

\* the condition under which the claims call a refresh possible
RefreshPossible ==
    ~dr.token.nil /\ dr.token.RefreshToken # "" /\ authClient

FirstResponse == dr.got[1]

FinalResponse == dr.got[Len(dr.got)]

FirstIsUnauthorized ==
    FirstResponse.kind = "resp" /\ FirstResponse.status \in {401, 403}

RefreshSucceeded ==
    Len(dr.refresh) = 1 /\ ~dr.refresh[1].err /\ ~dr.refresh[1].token.nil

RefreshFailed ==
    Len(dr.refresh) = 1 /\ (dr.refresh[1].err \/ dr.refresh[1].token.nil)

\* the caller's expected statuses, {200} when it passed none
ExpectedSet ==
    IF dr.expected = <<>> THEN {200} ELSE Range(dr.expected)

\* C5: when a refresh is possible and the first response is 401 or 403, the
\* refresh collaborator is invoked exactly once, with the credential's refresh
\* token; when it returns a new credential exactly two requests are sent, the
\* second one with the new access token (and the same body), and when the
\* second response is 200 DoRequest returns its body with no error. When the
\* first response is already 200 the collaborator is not invoked and one
\* request is sent.
C5_RefreshOnceThenRetryWithNewToken ==
    dr.called =>
      /\ (FirstIsUnauthorized /\ RefreshPossible) =>
            /\ dr.out.refreshArgs = <<dr.token.RefreshToken>>
            /\ Len(dr.refresh) = 1
            /\ RefreshSucceeded =>
                  /\ Len(dr.out.sent) = 2
                  /\ dr.out.sent[2].Authorization = dr.refresh[1].token.AccessToken
                  /\ dr.out.sent[2].body = dr.reqBody
                  /\ (dr.got[2].kind = "resp" /\ dr.got[2].status = 200) =>
                        dr.out.err = NoErr /\ dr.out.data = dr.got[2].body
      /\ (FirstResponse.kind = "resp" /\ FirstResponse.status = 200) =>
            dr.out.refreshArgs = <<>> /\ Len(dr.out.sent) = 1

\* C5 witness: responses [403, 200] with a refresh that returned a new token;
\* the second request carried "newAccess" and the 200 body came back.
C5_Witness ==
    /\ dr.called
    /\ dr.token = Token("oldAccess", "oldRefresh")
    /\ Len(dr.got) = 2
    /\ dr.got[1].status = 403
    /\ dr.got[2] = [kind |-> "resp", status |-> 200, body |-> "b2"]
    /\ dr.out.refreshArgs = <<"oldRefresh">>
    /\ dr.out.sent[1].Authorization = "oldAccess"
    /\ dr.out.sent[2].Authorization = "newAccess"
    /\ dr.out.data = "b2"
    /\ dr.out.err = NoErr

\* C6: when both the first response and the response to the retry are 401 or
\* 403 (the refresh succeeded), the refresh collaborator was invoked exactly
\* once, exactly two requests were sent, and the outcome is the HTTPError
\* carrying the second response's status and body.
C6_NoSecondRefresh ==
    (/\ dr.called
     /\ FirstIsUnauthorized
     /\ RefreshPossible
     /\ RefreshSucceeded
     /\ Len(dr.got) >= 2
     /\ dr.got[2].kind = "resp"
     /\ dr.got[2].status \in {401, 403}) =>
        /\ Len(dr.out.refreshArgs) = 1
        /\ Len(dr.out.sent) = 2
        /\ dr.out.err = HTTPError(dr.got[2].status, dr.got[2].body)
        /\ dr.out.data = NoData

\* C6 witness: responses [403 "b1", 403 "b2"] around a successful refresh end
\* in HTTPError 403 with body "b2".
C6_Witness ==
    /\ dr.called
    /\ Len(dr.got) = 2
    /\ dr.got[1] = [kind |-> "resp", status |-> 403, body |-> "b1"]
    /\ dr.got[2] = [kind |-> "resp", status |-> 403, body |-> "b2"]
    /\ Len(dr.out.refreshArgs) = 1
    /\ dr.out.err = HTTPError(403, "b2")

\* C7: when the first response is 401 or 403, a refresh is possible and the
\* refresh collaborator returns an error or no credential, DoRequest sends no
\* second request and fails with the "token refresh failed" error, which is
\* not an HTTPError, and returns no body.
C7_RefreshFailureIsFatal ==
    (dr.called /\ FirstIsUnauthorized /\ RefreshPossible /\ ~RefreshSucceeded) =>
        /\ RefreshFailed
        /\ Len(dr.out.sent) = 1
        /\ dr.out.err.type = "token refresh failed"
        /\ dr.out.err.type # "HTTPError"
        /\ dr.out.err # HTTPError(FirstResponse.status, FirstResponse.body)
        /\ dr.out.data = NoData

\* C7 witness: a 401 followed by a refresh that returned an error.
C7_Witness ==
    /\ dr.called
    /\ FirstIsUnauthorized
    /\ FirstResponse.status = 401
    /\ RefreshPossible
    /\ Len(dr.refresh) = 1
    /\ dr.refresh[1].err
    /\ Len(dr.out.sent) = 1
    /\ dr.out.err.type = "token refresh failed"

\* C9: once the final response is there (after a refresh and retry, if any)
\* DoRequest returns its body with no error iff its status is in the expected
\* set ({200} when the caller passed none), and otherwise an HTTPError with
\* that status and that body. A 401/403 when no refresh is possible (nil
\* token, empty refresh token or no refresh collaborator) is reported this
\* way after exactly one request.
C9_OutcomeFollowsFinalStatus ==
    dr.called =>
      /\ (FinalResponse.kind = "resp" /\ ~RefreshFailed) =>
            IF FinalResponse.status \in ExpectedSet
            THEN dr.out.err = NoErr /\ dr.out.data = FinalResponse.body
            ELSE /\ dr.out.err = HTTPError(FinalResponse.status, FinalResponse.body)
                 /\ dr.out.data = NoData
      /\ (FirstIsUnauthorized /\ ~RefreshPossible) =>
            /\ Len(dr.out.sent) = 1
            /\ dr.out.refreshArgs = <<>>
            /\ dr.out.err = HTTPError(FirstResponse.status, FirstResponse.body)

\* C9 witness: a 403 for a token without refresh token, while a refresh
\* collaborator is configured, came back as HTTPError 403 after one request.
C9_Witness ==
    /\ dr.called
    /\ authClient
    /\ dr.token = Token("oldAccess", "")
    /\ dr.expected = <<200, 204>>
    /\ FirstResponse = [kind |-> "resp", status |-> 403, body |-> "b1"]
    /\ Len(dr.out.sent) = 1
    /\ dr.out.err = HTTPError(403, "b1")

-----------------------------------------------------------------------------
(* Claims about RetryWithExponentialBackoff *)

Min(a, b) == IF a < b THEN a ELSE b

RECURSIVE Pow2(_)
Pow2(n) == IF n = 0 THEN 1 ELSE 2 * Pow2(n - 1)

RetryReturned == rt.pc = "done"

\* the operation is one that succeeds once its retryable failures are over
SucceedsAfterFailures == rt.pc # "idle" /\ rt.final.err = NoErr

\* the error is an HTTPError with status 500, 502, 503 or 504
IsRetryableError(err) ==
    err.type = "HTTPError" /\ err.StatusCode \in {500, 502, 503, 504}

\* C12: for an operation that fails N consecutive times with a retryable
\* error and then succeeds, the loop invokes it exactly min(N + 1, 5) times:
\* for N <= 4 it returns the result with no error, for N >= 5 it returns an
\* error after 5 invocations; at no point has it invoked the operation more
\* than 5 times.
C12_InvokedMinOfFailuresPlusOneAndFive ==
    /\ rt.pc # "idle" => rt.invocations <= 5
    /\ (RetryReturned /\ SucceedsAfterFailures) =>
        /\ rt.invocations = Min(rt.fails + 1, 5)
        /\ rt.fails <= 4 => (rt.out.result = "success" /\ rt.out.err = NoErr)
        /\ rt.fails >= 5 => (rt.out.result = "nil" /\ rt.out.err # NoErr)

\* an operation with six retryable failures ahead of its success was given up
\* after the fifth invocation
C12_Witness ==
    /\ RetryReturned
    /\ SucceedsAfterFailures
    /\ rt.fails = 6
    /\ rt.invocations = 5
    /\ rt.out.err = HTTPError(502, "temporary issue")

\* C13: the loop goes round again only after an HTTPError with status 500,
\* 502, 503 or 504. After any other error the loop is left at once: when the
\* first invocation returns such an error (an HTTPError 401, 403, 404 or 429,
\* or an error that is no HTTPError) the operation was invoked exactly once, no
\* sleep was made and the call fails with it.
C13_OnlyRetryableErrorsAreRetried ==
    /\ (rt.pc = "running" /\ rt.invocations > 0) => IsRetryableError(rt.lastErr)
    /\ (rt.pc # "idle" /\ rt.invocations > 0 /\ rt.lastErr # NoErr
          /\ ~IsRetryableError(rt.lastErr)) =>
        /\ RetryReturned
        /\ rt.out.err # NoErr
        /\ rt.fails = 0 => (rt.invocations = 1 /\ rt.sleeps = <<>>)

\* an operation whose first answer is HTTPError 429 was invoked once, with no
\* sleep, and the call failed with the 429
C13_Witness ==
    /\ RetryReturned
    /\ rt.fails = 0
    /\ rt.invocations = 1
    /\ rt.sleeps = <<>>
    /\ rt.out.err = HTTPError(429, "b1")

\* C14: whenever the call fails, by exhausting the 5 attempts or on an error
\* that is not retryable, the error returned is the error of the last
\* invocation itself, status code and body included, and the result is nil.
C14_LastErrorReturnedVerbatim ==
    (RetryReturned /\ rt.lastErr # NoErr) =>
        /\ rt.out.err = rt.lastErr
        /\ rt.out.err.StatusCode = rt.lastErr.StatusCode
        /\ rt.out.err.Body = rt.lastErr.Body
        /\ rt.out.result = "nil"

\* after four retryable failures the fifth invocation returned HTTPError 404,
\* and the call returned that error
C14_Witness ==
    /\ RetryReturned
    /\ rt.fails = 4
    /\ rt.invocations = 5
    /\ rt.lastErr = HTTPError(404, "b1")
    /\ rt.out = [result |-> "nil", err |-> HTTPError(404, "b1")]

\* delay_i = min(32, 2^(i-1)) seconds, in ticks
DelayTicks(i) == Min(32, Pow2(i - 1)) * TicksPerSecond

\* C15: the sleep function is called once between two attempts and never
\* after the last one: while the loop runs there is one sleep per invocation
\* made, once it returned one less than the invocations, and at most 4; the
\* i-th sleep lasts at least delay_i and less than 2 * delay_i, where
\* delay_i = min(32, 2^(i-1)) seconds.
C15_SleepsBetweenAttemptsWithinBounds ==
    rt.pc # "idle" =>
        /\ rt.pc = "running" => Len(rt.sleeps) = rt.invocations
        /\ RetryReturned => Len(rt.sleeps) = rt.invocations - 1
        /\ Len(rt.sleeps) <= 4
        /\ \A i \in 1..Len(rt.sleeps) :
            /\ rt.sleeps[i] >= DelayTicks(i)
            /\ rt.sleeps[i] < 2 * DelayTicks(i)

\* five invocations were separated by four sleeps, the last of them the
\* longest the jitter allows: one tick short of 16 seconds
C15_Witness ==
    /\ RetryReturned
    /\ rt.invocations = 5
    /\ Len(rt.sleeps) = 4
    /\ rt.sleeps[1] = TicksPerSecond
    /\ rt.sleeps[4] = 16 * TicksPerSecond - 1

-----------------------------------------------------------------------------
(* Claims about the single-record retry loop *)

\* C16: the context is checked before every attempt of the single-record
\* loop: once the context is cancelled no attempt sends a request any more
\* (the requests sent stay those sent up to the cancellation, the one in
\* flight included), and the call returns the context's error and no record.
C16_CancelledContextStopsAttempts ==
    (sk.pc # "idle" /\ sk.ctxDone) =>
        /\ sk.sends = sk.sendsAtCancel
        /\ sk.pc = "done" => (sk.err = "context canceled" /\ sk.kills = <<>>)

\* the context was cancelled after the second request; the third attempt sent
\* nothing and the call returned the context's error
C16_Witness ==
    /\ sk.pc = "done"
    /\ sk.ctxDone
    /\ sk.attempt = 3
    /\ sk.sends = 2
    /\ sk.sendsAtCancel = 2
    /\ sk.err = "context canceled"

\* C18: in the single-record path 429 responses are not counted against the
\* 5-attempt budget: the call gives up with "all attempts failed" only after
\* five failures that were not 429 responses.
C18_RateLimitedNotCounted ==
    (sk.pc = "done" /\ sk.err = AllAttemptsFailed) => sk.otherFailures = 5

-----------------------------------------------------------------------------
(* Claims about buildCacheKey *)

\* "&name=value" when the parameter is there
QueryPart(name) ==
    IF name \in DOMAIN ck.params THEN "&" \o name \o "=" \o ck.params[name] ELSE ""

\* 'esi:' + endpoint + ':' followed by the parameters in ascending key order
AscendingKey ==
    "esi:" \o ck.endpoint \o ":" \o QueryPart("datasource") \o QueryPart("language")
        \o QueryPart("page")

\* C20: the key depends on the endpoint and the parameter set only, never on
\* the order in which the map yields the parameters: every call returns
\* 'esi:' + endpoint + ':' followed by '&key=value' for each parameter in
\* ascending key order, so two calls with the same endpoint and parameter set
\* return the same key.
C20_KeyIndependentOfIterationOrder ==
    /\ ck.pc \in {"second", "done"} =>
        /\ ck.key1 = AscendingKey
        /\ ck.key1 = buildCacheKey(ck.endpoint, ck.params)
    /\ ck.pc = "done" => (ck.key2 = AscendingKey /\ ck.key1 = ck.key2)

\* two calls over three parameters, yielded in two different orders, neither
\* of them ascending, returned the same key
C20_Witness ==
    /\ ck.pc = "done"
    /\ ck.order1 = <<"page", "language", "datasource">>
    /\ ck.order2 = <<"language", "page", "datasource">>
    /\ ck.key1 = "esi:characters/1/:&datasource=tranquility&language=2&page=2"
    /\ ck.key2 = ck.key1

-----------------------------------------------------------------------------
(* Claims about the zkill cache keys *)

\* a month below 100 written with two digits
TwoDigits(m) == Digit(m \div 10) \o Digit(m % 10)

\* 'zkill:<direction>:<kind>ID:<id>:<year>:<month as two digits>:<page>'
PageKeyFormat(q) ==
    "zkill:" \o q.apiType \o ":" \o q.entityType \o "ID:" \o Itoa(q.entityID)
        \o ":" \o Itoa(q.year) \o ":" \o TwoDigits(q.month) \o ":" \o Itoa(q.page)

\* C21: the key of a page request is
\* 'zkill:<direction>:<kind>ID:<id>:<year>:<two-digit month>:<page>'; two page
\* requests have the same key iff they agree on direction, kind, id, year,
\* month and page; no page key equals a single-record key
\* 'zkill:single:killID:<id>'.
C21_PageKeyDeterminedByRequest ==
    /\ pk.pc \in {"second", "done"} =>
        /\ pk.keyA = PageKeyFormat(pk.a)
        /\ pk.single = "zkill:single:killID:" \o Itoa(pk.killID)
        /\ pk.keyA # pk.single
    /\ pk.pc = "done" =>
        /\ pk.keyB = PageKeyFormat(pk.b)
        /\ (pk.keyA = pk.keyB) <=> (pk.a = pk.b)
        /\ pk.keyB # pk.single

\* two requests that differ in the page only got different keys, the month
\* written as "01"
C21_Witness ==
    /\ pk.pc = "done"
    /\ pk.a = [pk.b EXCEPT !.page = 12]
    /\ pk.b.page = 1
    /\ pk.keyA = "zkill:kills:characterID:9:2023:01:12"
    /\ pk.keyB = "zkill:kills:characterID:9:2023:01:1"

-----------------------------------------------------------------------------
(* Claims about cached reads *)

\* the read is one for which an earlier successful fetch stored content that
\* has neither expired nor been deleted since
ReadOfCachedRequest == rd.kind # "none" /\ rd.expect.some

\* the content the read handed to its caller, as bytes
ReturnedContent == IF rd.kind = "GetBytes" THEN rd.data ELSE Marshal(rd.mails)

ReadFailed == IF rd.kind = "GetBytes" THEN rd.err # NoErr ELSE rd.err # ""

\* C8: during one GetBytes call the refresh collaborator is invoked at most
\* once, whatever the sequence of upstream responses, 401/403 followed after
\* the refresh by retryable 5xx responses included.
C8_RefreshAtMostOncePerGetBytes ==
    rd.kind = "GetBytes" => rd.refreshes <= 1

\* a step of a GetBytes call: the cache check, or one turn of its retry loop
GetBytesStep == rd' # rd /\ rd'.kind = "GetBytes"

\* C11: GetBytes writes to the cache only on success. A step of GetBytes that
\* does not return bytes fetched on a miss (the cache check, a failed attempt
\* that is retried, a return with an error) leaves the cache unchanged; the
\* step that returns bytes b on a miss changes the cache in exactly one place:
\* the key of the request now holds b with the 770-hour TTL.
C11_CacheWrittenOnlyOnSuccess ==
    [][GetBytesStep =>
        IF rd'.pc = "done" /\ ~rd'.hit /\ rd'.err = NoErr
        THEN /\ rd'.key = buildCacheKey(rd'.endpoint, WithDatasource(rd'.params))
             /\ cache' = [cache EXCEPT ![rd'.key] =
                            [found |-> TRUE, value |-> rd'.data, ttl |-> 770]]
        ELSE cache' = cache]_vars

\* a GetBytes call that was answered 5xx on all five attempts has returned the
\* error, and the key of its request is still absent from the cache
C11_Witness ==
    /\ rd.kind = "GetBytes"
    /\ rd.pc = "done"
    /\ rd.i = 4
    /\ rd.err = HTTPError(503, "b1")
    /\ ~cache[rd.key].found

\* C17: the retry loop around GetBytes observes the cancellation: once the
\* context is cancelled, after a retryable failure and before the next
\* attempt, the operation is not invoked again.
C17_CancelledContextStopsRetryLoop ==
    (rd.kind = "GetBytes" /\ rd.ctxDone /\ rd.failedBeforeCancel > 0) =>
        rd.invokedAfterCancel = 0

\* C19: a 5xx response is retried with backoff on a feed page fetch too, and
\* an error reaches the caller only after the retry budget is exhausted: a
\* page fetch that failed on a 500, 502, 503 or 504 has sent the request five
\* times.
C19_PageFetchRetriesServerErrors ==
    (rd.kind = "fetchPageData" /\ rd.err # ""
        /\ rd.status \in {500, 502, 503, 504}) => rd.sends = 5

\* a step that writes an entry under key k
CacheWrite(k) == cache'[k] # cache[k] /\ cache'[k].found

\* C22: a feed page fetched from the network is written with a 24-hour TTL
\* iff its year and month are the current ones, and with the 770-hour TTL
\* otherwise; the lookup before the fetch is the same in both cases: a page
\* found in the cache, of the current month or not, is served from it with no
\* network call and no write.
C22_CurrentMonthPagesShortLived ==
    [][client = "zkill" =>
        /\ \A k \in CacheKeys : CacheWrite(k) =>
            /\ rd'.kind = "fetchPageData" /\ rd'.key = k /\ ~rd'.hit
            /\ cache'[k].value = Marshal(rd'.mails)
            /\ (rd'.req.year = rd'.now.year /\ rd'.req.month = rd'.now.month)
                  => cache'[k].ttl = 24
            /\ ~(rd'.req.year = rd'.now.year /\ rd'.req.month = rd'.now.month)
                  => cache'[k].ttl = 770
        /\ (rd' # rd /\ cache[rd'.key].found) =>
            (rd'.hit /\ rd'.sends = 0 /\ cache' = cache)]_vars

\* a page of October 2023 fetched in October 2023 sits in the cache with the
\* 24-hour TTL
C22_Witness ==
    /\ rd.kind = "fetchPageData"
    /\ ~rd.hit
    /\ rd.err = ""
    /\ rd.req.year = 2023 /\ rd.req.month = 10
    /\ rd.now = [year |-> 2023, month |-> 10]
    /\ cache[rd.key] = [found |-> TRUE, value |-> Marshal(rd.mails), ttl |-> 24]

\* C10: a read of a request for which a GetBytes call or a page fetch
\* succeeded earlier, the entry neither expired nor deleted since, returns at
\* once from the cache: it sends no HTTP request, invokes no refresh, fails
\* with no error and returns the content that was stored; when the earlier
\* call needed one send, the two calls together cause exactly one send.
C10_CacheHitShortCircuitsNetwork ==
    ReadOfCachedRequest =>
        /\ rd.pc = "done"
        /\ rd.hit
        /\ rd.sends = 0
        /\ rd.refreshes = 0
        /\ ~ReadFailed
        /\ ReturnedContent = rd.expect.content
        /\ (rd.expect.oneSend => 1 + rd.sends = 1)

\* a second GetBytes for a request whose first call stored its body after one
\* send has returned
C10_Witness ==
    /\ rd.kind = "GetBytes"
    /\ rd.pc = "done"
    /\ rd.expect.some
    /\ rd.expect.oneSend
    /\ rd.hit
    /\ rd.data = RawBytes("b1")

\* what a call gets back, apart from the arguments it passed
ResultOf(r) == [pc |-> r.pc, hit |-> r.hit, data |-> r.data, err |-> r.err,
                sends |-> r.sends, refreshes |-> r.refreshes, key |-> r.key]

\* C39: the generic cache key holds no credential. Two GetBytes calls for the
\* same endpoint and parameters use the same key whatever tokens they pass,
\* and when the key is cached both get the cached bytes, with the same
\* result; a call for a request that an earlier call fetched and stored,
\* under whatever credential, returns the stored bytes with no request sent,
\* no refresh and no error, whatever token it passes itself.
C39_CacheHitIgnoresCredential ==
    /\ \A endpoint \in Endpoints, prm \in GetBytesParams :
        \A t1, t2 \in GetBytesTokens :
            LET a == GetBytesEntry(endpoint, t1, prm)
                b == GetBytesEntry(endpoint, t2, prm)
            IN  /\ a.key = b.key
                /\ cache[a.key].found =>
                    /\ ResultOf(a) = ResultOf(b)
                    /\ a.hit /\ a.pc = "done" /\ a.err = NoErr
                    /\ a.data = cache[a.key].value
    /\ (rd.kind = "GetBytes" /\ rd.expect.some) =>
        /\ rd.pc = "done"
        /\ rd.hit
        /\ rd.data = rd.expect.content
        /\ rd.err = NoErr
        /\ rd.sends = 0
        /\ rd.refreshes = 0

\* a response fetched and stored by a call with one credential has been
\* returned to a call that passed no token
C39_Witness ==
    /\ rd.kind = "GetBytes"
    /\ rd.pc = "done"
    /\ rd.hit
    /\ rd.expect.some
    /\ rd.expect.token = Token("oldAccess", "oldRefresh")
    /\ rd.token = NoToken
    /\ rd.data = RawBytes("b1")

\* a caller that has entered resolveLocationSystemID
InCall(p) == lp[p].pc \notin {"idle", "off"}

\* the caller has left both lookups behind without a hit
MissedTwice(p) ==
    /\ ~lp[p].hit1 /\ ~lp[p].hit2
    /\ lp[p].pc \in {"set1", "set1cs", "set2", "set2cs", "done"}

\* C23: location resolution looks the id up in the shared table whatever the
\* kind: a call that found the id makes no network call and, when the first
\* lookup found it, returns the stored value without error; a call that
\* missed makes exactly one fetch for its id, the structure fetch with the
\* caller's credential iff the kind is "structure", otherwise the station
\* fetch with no credential.
C23_ResolutionByIdThenKind ==
    \A p \in Callers :
        InCall(p) =>
            /\ (lp[p].hit1 \/ lp[p].hit2) => lp[p].fetches = <<>>
            /\ lp[p].hit1 =>
                /\ lp[p].pc = "done"
                /\ lp[p].val \in SystemIDs
                /\ lp[p].ret = Return(lp[p].val, FALSE)
            /\ MissedTwice(p) => Len(lp[p].fetches) = 1
            /\ Len(lp[p].fetches) <= 1
            /\ \A i \in DOMAIN lp[p].fetches :
                LET f == lp[p].fetches[i]
                IN  /\ f.id = lp[p].id
                    /\ lp[p].locType = "structure" =>
                        (f.fetch = "structure" /\ f.token = CallerToken(p))
                    /\ lp[p].locType # "structure" =>
                        (f.fetch = "station" /\ f.token = NoToken)

\* caller 1 resolved an id as a structure with its credential; caller 2 then
\* asked for the same id as a station and got the stored value without a
\* fetch; (or the other way round: a station fetch without credential)
C23_Witness ==
    /\ lp[1].pc = "done" /\ lp[2].pc = "done"
    /\ lp[1].id = lp[2].id
    /\ lp[1].locType = "structure" /\ lp[2].locType = "station"
    /\ lp[1].fetches = <<[fetch |-> "structure", id |-> lp[1].id,
                          token |-> CallerToken(1)]>>
    /\ lp[2].hit1 /\ lp[2].fetches = <<>>
    /\ lp[2].ret = Return(lp[1].ret.val, FALSE)

\* C24: a resolution that missed and succeeded has stored its value under its
\* id before it returns: every write it made is (id, returned value), it made
\* one, and the table maps the id to the returned value unless another caller
\* wrote after it; a resolution whose fetch or decode failed returns the
\* error and has written nothing.
C24_StoreBeforeReturn ==
    \A p \in Callers :
        InCall(p) =>
            /\ lp[p].fetchFailed =>
                /\ lp[p].pc = "done"
                /\ lp[p].ret = Return(0, TRUE)
                /\ lp[p].writes = <<>>
            /\ (lp[p].pc = "done" /\ ~lp[p].hit1 /\ ~lp[p].fetchFailed) =>
                /\ ~lp[p].ret.err
                /\ lp[p].writes # <<>>
                /\ \A i \in DOMAIN lp[p].writes :
                    lp[p].writes[i] = [id |-> lp[p].id, val |-> lp[p].ret.val]
                /\ lastWriter[lp[p].id] = {p} =>
                    locCache[lp[p].id] = Cached(lp[p].ret.val)

\* caller 1 missed, fetched and returned with the table holding its value;
\* caller 2's fetch for the other id failed and that id is still absent
C24_Witness ==
    /\ lp[1].pc = "done" /\ lp[2].pc = "done"
    /\ lp[1].id # lp[2].id
    /\ Len(lp[1].fetches) = 1 /\ ~lp[1].fetchFailed
    /\ locCache[lp[1].id] = Cached(lp[1].ret.val)
    /\ lp[2].fetchFailed /\ lp[2].ret.err
    /\ locCache[lp[2].id] = NotCached

\* the callers between RLock and RUnlock, and between Lock and Unlock
ReadingCallers == {p \in Callers : lp[p].pc \in {"get1cs", "get2cs"}}

WritingCallers == {p \in Callers : lp[p].pc \in {"set1cs", "set2cs"}}

\* C25: concurrent resolutions are safe without being deduplicated: the
\* callers reading the table are those holding the read lock, the callers
\* writing it those holding the write lock, at most one caller writes at a
\* time and nobody reads meanwhile, and each id holds the value written by
\* the last caller that wrote it (absent when nobody did).
C25_ConcurrentResolutionsSafe ==
    /\ locCacheM.readers = ReadingCallers
    /\ locCacheM.writer = WritingCallers
    /\ Cardinality(WritingCallers) <= 1
    /\ WritingCallers # {} => ReadingCallers = {}
    /\ \A id \in LocationIDs :
        /\ lastWriter[id] = {} => locCache[id] = NotCached
        /\ \A p \in lastWriter[id] :
            /\ lp[p].writes # <<>>
            /\ locCache[id] = Cached(lp[p].writes[Len(lp[p].writes)].val)

\* both callers missed the same id, both fetched it, they got different
\* values, and the table holds the one of the last writer, caller 2
C25_Witness ==
    /\ lp[1].pc = "done" /\ lp[2].pc = "done"
    /\ lp[1].id = lp[2].id
    /\ Len(lp[1].fetches) = 1 /\ Len(lp[2].fetches) = 1
    /\ ~lp[1].fetchFailed /\ ~lp[2].fetchFailed
    /\ lp[1].ret.val # lp[2].ret.val
    /\ lastWriter[lp[1].id] = {2}
    /\ locCache[lp[1].id] = Cached(lp[2].ret.val)

\* C30 (as claimed): every request sent through a client built by
\* NewEveHttpClient(ua, base) reaches the wire with the one User-Agent value
\* ua, whatever the caller put on the request, its other headers as given,
\* and the caller's request is left as it was.
C30_UserAgentFixedAtConstruction ==
    ua.last.sent =>
        /\ ua.last.wire["User-Agent"] = <<ua.clients[ua.last.through].userAgent>>
        /\ ua.last.wire["Accept"] = ua.last.header["Accept"]
        /\ ua.last.callerAfter = ua.last.header

\* C31: Get(k) right after Set(k, v, ttl) returns (v, true); a Get that
\* finds k returns the bytes of the last Set for k, so a later Set replaces
\* the value; Get(k) right after Delete(k) finds nothing; and an operation on
\* k changes what Get returns for no other key.
C31_CacheSetGetDelete ==
    [][/\ repo'.last.op = "Get" =>
            LET g == repo'.last
            IN  /\ (g.after.op = "Set" /\ g.after.key = g.key) =>
                        g.result = [value |-> g.after.value, found |-> TRUE]
                /\ (g.after.op = "Delete" /\ g.after.key = g.key) =>
                        ~g.result.found
                /\ g.result.found =>
                        /\ repo.written[g.key].some
                        /\ g.result.value = repo.written[g.key].value
                /\ repo'.store = repo.store
       /\ repo'.last.op \in {"Set", "Delete"} =>
            \A k \in RepoKeys \ {repo'.last.key} :
                StoreGet(repo'.store, k, repo'.now) = StoreGet(repo.store, k, repo.now)
      ]_vars

\* "baz" was set over an earlier item of "foo" and the Get that followed
\* returned it, while "other" holds its own value
C31_Witness ==
    /\ repo.last.op = "Get"
    /\ repo.last.key = "foo"
    /\ repo.last.after = [op |-> "Set", key |-> "foo", value |-> "baz"]
    /\ repo.last.result = [value |-> "baz", found |-> TRUE]
    /\ repo.store["other"].present
    /\ repo.store["other"].value = "bar"

\* C32 (as claimed): when GetJSON fails with an HTTPError (404 or any other
\* unexpected status) GetCharacterInfo returns that error to its caller and
\* does not crash, so the caller can go on with the next character.
C32_NotFoundReturnedAsError ==
    \A i \in 1..Len(ci.log) :
        ci.log[i].getJSON.err.type = "HTTPError" =>
            /\ ci.log[i].out.kind = "error"
            /\ ci.log[i].out.err = ci.log[i].getJSON.err
            /\ ci.running

\* C33: DoRequest never changes the caller's credential: when the call has
\* returned, with a response, an HTTPError, a transport error or a failed
\* refresh, the caller's token has the access token and the refresh token it
\* had before, also when the retry went out with a refreshed token.
C33_CallerTokenNotMutated ==
    dr.called =>
        /\ dr.tokenAfter.nil = dr.token.nil
        /\ dr.tokenAfter.AccessToken = dr.token.AccessToken
        /\ dr.tokenAfter.RefreshToken = dr.token.RefreshToken

\* a call whose refresh succeeded: the retry carried the new access token and
\* the caller's token still holds the old pair
C33_Witness ==
    /\ dr.called
    /\ Len(dr.out.sent) = 2
    /\ dr.out.sent[1].Authorization = "oldAccess"
    /\ dr.out.sent[2].Authorization = "newAccess"
    /\ dr.tokenAfter = Token("oldAccess", "oldRefresh")

\* the fields of the merged record that come from the detail record, and
\* those that come from the summary record's zkb block
DetailFields == {"KillMailID", "KillMailTime", "SolarSystemID", "Victim", "Attackers"}

SummaryFields == {"LocationID", "Hash", "FittedValue", "DroppedValue",
                  "DestroyedValue", "TotalValue", "Points", "NPC", "Solo", "Awox"}

\* C34: ConvertToFlattened returns, for every detail record and summary
\* record, exactly one record and no error; its kill id, time, solar system,
\* victim and attackers are the detail record's, its location id, hash, the
\* four values, points and the three flags are those of the summary record's
\* zkb block, and it has no other field.
C34_MergeCopiesFields ==
    cf.pc = "done" =>
        /\ Len(cf.out) = 1
        /\ DOMAIN cf.out[1] = DetailFields \cup SummaryFields
        /\ \A f \in DetailFields : cf.out[1][f] = cf.esi[f]
        /\ \A f \in SummaryFields : cf.out[1][f] = cf.zkill.ZKB[f]

\* a detail record 222 merged with a summary record that carries the id 333:
\* the merged record has the id 222 and the summary's hash and total value
C34_Witness ==
    /\ cf.pc = "done"
    /\ cf.esi.KillMailID = 222
    /\ cf.zkill.KillMailID = 333
    /\ cf.zkill.ZKB.Hash = "b"
    /\ cf.out[1].KillMailID = 222
    /\ cf.out[1].Hash = "b"
    /\ cf.out[1].TotalValue = cf.zkill.ZKB.TotalValue

\* how many records of a list carry an id
Occurrences(elems, id) ==
    Cardinality({i \in 1..Len(elems) : elems[i].KillMailID = id})

\* C35: AggregateKillMailDumps(base, addition) returns the records of base
\* followed by those of addition, dropping none: its length is the sum of the
\* two lengths, it is addition itself when base is nil and base itself when
\* addition is nil, and each kill id occurs in it as many times as in the two
\* inputs together.
C35_DumpsAreConcatenated ==
    ad.pc = "done" =>
        /\ ad.out.elems = ad.base.elems \o ad.addition.elems
        /\ Len(ad.out.elems) = Len(ad.base.elems) + Len(ad.addition.elems)
        /\ ad.base.nil => ad.out = ad.addition
        /\ (ad.addition.nil /\ ~ad.base.nil) => ad.out = ad.base
        /\ \A id \in KillIds :
            Occurrences(ad.out.elems, id) =
                Occurrences(ad.base.elems, id) + Occurrences(ad.addition.elems, id)

\* base and addition both hold the id 111: the result has three records and
\* the id 111 twice
C35_Witness ==
    /\ ad.pc = "done"
    /\ ad.base = Slice(<<[KillMailID |-> 111]>>)
    /\ ad.addition = Slice(<<[KillMailID |-> 222], [KillMailID |-> 111]>>)
    /\ Len(ad.out.elems) = 3
    /\ Occurrences(ad.out.elems, 111) = 2

\* the Retry-After values that are integers, with the seconds they give
IntegerRetryAfter == [h \in {"0", "7"} |-> IF h = "0" THEN 0 ELSE 7]

\* C36: in the single-record loop exactly one sleep follows a 429 response:
\* of s seconds, the backoff staying as it was, when its Retry-After header
\* is the integer s; of the current backoff, which then doubles, when the
\* header is absent or not an integer.
C36_RetryAfterOrBackoff ==
    [][(sk'.sends = sk.sends + 1 /\ sk'.last.kind = "resp" /\ sk'.last.status = 429) =>
            /\ Len(sk'.sleeps) = Len(sk.sleeps) + 1
            /\ SubSeq(sk'.sleeps, 1, Len(sk.sleeps)) = sk.sleeps
            /\ IF sk'.last.retryAfter \in DOMAIN IntegerRetryAfter
               THEN /\ sk'.sleeps[Len(sk'.sleeps)] = IntegerRetryAfter[sk'.last.retryAfter]
                    /\ sk'.backoff = sk.backoff
               ELSE /\ sk'.sleeps[Len(sk'.sleeps)] = sk.backoff
                    /\ sk'.backoff = 2 * sk.backoff
      ]_vars

\* after a failed attempt (sleep 1, backoff 2) a 429 with Retry-After: 7 was
\* followed by one sleep of 7 seconds and the backoff is still 2
C36_Witness ==
    /\ sk.pc = "running"
    /\ sk.last.kind = "resp" /\ sk.last.status = 429 /\ sk.last.retryAfter = "7"
    /\ sk.sleeps = <<1, 7>>
    /\ sk.backoff = 2

\* C37: in the single-record loop an attempt without a record is followed by
\* another attempt, up to the ceiling of 5: at most 5 requests are sent;
\* while the loop runs every request so far failed; the loop ends with a
\* record at the first attempt that decoded one, and that record is stored;
\* it ends with the "all attempts failed" error only after 5 requests without
\* a record, and then nothing is written to the cache.
C37_NoRecordIsRetriedUpToCeiling ==
    /\ sk.pc # "idle" =>
        /\ sk.sends <= 5
        /\ sk.pc = "running" =>
            (sk.sends < 5 /\ sk.sends = sk.rateLimited + sk.otherFailures
                /\ sk.kills = <<>> /\ sk.cacheSet = <<>>)
        /\ (sk.pc = "done" /\ sk.err = "") =>
            /\ sk.kills = SingleKills
            /\ sk.last.kills = sk.kills
            /\ sk.sends = sk.rateLimited + sk.otherFailures + 1
            /\ sk.cacheSet = <<[kills |-> sk.kills]>>
        /\ (sk.pc = "done" /\ sk.err = AllAttemptsFailed) =>
            /\ sk.sends = 5
            /\ sk.rateLimited + sk.otherFailures = 5
            /\ sk.kills = <<>>
            /\ sk.cacheSet = <<>>
        /\ (sk.pc = "done" /\ sk.err # "") => sk.cacheSet = <<>>

\* five attempts without a record (a transport error, a 500, an empty list,
\* a failed decode, ...) ended in the error, nothing stored
C37_Witness ==
    /\ sk.pc = "done"
    /\ sk.err = AllAttemptsFailed
    /\ sk.sends = 5
    /\ sk.otherFailures = 5
    /\ sk.last.status = 200
    /\ sk.cacheSet = <<>>

\* the counter the claim names for a final status
CounterOfStatus(st) ==
    IF st = 404 THEN "notFound"
    ELSE IF st \in {200, 204} THEN "success"
    ELSE "fail"

\* C40: the request counters stay consistent under concurrent DoRequest
\* calls. Whenever no call is in its metrics block, totalCalls is the sum of
\* the three other counters; a call that got a final response has added 1 to
\* totalCalls and 1 to the counter of that response's status (404 notFound,
\* 2xx success, anything else fail) and nothing else, also when a refresh
\* made it send two requests; a call that ended with a transport error or a
\* failed refresh has added nothing; and the counters are the sum of what the
\* calls added.
C40_CountersConsistent ==
    /\ (\A p \in Goroutines : mt.g[p].pc # "metrics") =>
        mt.counters["total"] = mt.counters["notFound"] + mt.counters["success"]
                                    + mt.counters["fail"]
    /\ \A p \in Goroutines :
        mt.g[p].pc = "returned" =>
            IF mt.g[p].final # 0
            THEN mt.g[p].added =
                    [c \in Counters |->
                        IF c \in {"total", CounterOfStatus(mt.g[p].final)} THEN 1 ELSE 0]
            ELSE mt.g[p].added = ZeroCounters
    /\ \A c \in Counters :
        mt.counters[c] = mt.settled[c]
            + (IF mt.g["g1"].pc = "idle" THEN 0 ELSE mt.g["g1"].added[c])
            + (IF mt.g["g2"].pc = "idle" THEN 0 ELSE mt.g["g2"].added[c])

\* two calls have returned: one sent two requests around a refresh and ended
\* on a 404, the other failed on the transport; one call is counted, as not
\* found
C40_Witness ==
    /\ mt.g["g1"].pc = "returned" /\ mt.g["g1"].sends = 2 /\ mt.g["g1"].final = 404
    /\ mt.g["g2"].pc = "returned" /\ mt.g["g2"].err = "failed to execute request"
    /\ mt.counters = [total |-> 1, notFound |-> 1, success |-> 0, fail |-> 0]

-----------------------------------------------------------------------------
(* Specifications *)

InitAggregate == InitAgg /\ IdleDr /\ IdleCache /\ IdleRetry /\ IdleSingle /\ IdleKey
    /\ IdlePageKey /\ IdleLoc /\ IdleUa /\ IdleRepo /\ IdleChar /\ IdleFlat
    /\ IdleDump /\ IdleMetrics

SpecAggregate == InitAggregate /\ [][NextAgg]_vars

InitDoRequest == InitDr /\ IdleAgg /\ IdleCache /\ IdleRetry /\ IdleSingle /\ IdleKey
    /\ IdlePageKey /\ IdleLoc /\ IdleUa /\ IdleRepo /\ IdleChar /\ IdleFlat
    /\ IdleDump /\ IdleMetrics

SpecDoRequest == InitDoRequest /\ [][NextDr]_vars

InitCachedReads == InitCache /\ InitDr /\ IdleAgg /\ IdleRetry /\ IdleSingle /\ IdleKey
    /\ IdlePageKey /\ IdleLoc /\ IdleUa /\ IdleRepo /\ IdleChar /\ IdleFlat
    /\ IdleDump /\ IdleMetrics

SpecCachedReads == InitCachedReads /\ [][NextCache]_vars

InitRetrying == InitRetry /\ IdleAgg /\ IdleDr /\ IdleCache /\ IdleSingle /\ IdleKey
    /\ IdlePageKey /\ IdleLoc /\ IdleUa /\ IdleRepo /\ IdleChar /\ IdleFlat
    /\ IdleDump /\ IdleMetrics

SpecRetry == InitRetrying /\ [][NextRetry]_vars

InitSingleKillmail == InitSingle /\ IdleAgg /\ IdleDr /\ IdleCache /\ IdleRetry /\ IdleKey
    /\ IdlePageKey /\ IdleLoc /\ IdleUa /\ IdleRepo /\ IdleChar /\ IdleFlat
    /\ IdleDump /\ IdleMetrics

SpecSingle == InitSingleKillmail /\ [][NextSingle]_vars

InitCacheKey == InitKey /\ IdleAgg /\ IdleDr /\ IdleCache /\ IdleRetry /\ IdleSingle
    /\ IdlePageKey /\ IdleLoc /\ IdleUa /\ IdleRepo /\ IdleChar /\ IdleFlat
    /\ IdleDump /\ IdleMetrics

SpecCacheKey == InitCacheKey /\ [][NextKey]_vars

InitPageKeys == InitPageKey /\ IdleAgg /\ IdleDr /\ IdleCache /\ IdleRetry /\ IdleSingle
    /\ IdleKey /\ IdleLoc /\ IdleUa /\ IdleRepo /\ IdleChar /\ IdleFlat
    /\ IdleDump /\ IdleMetrics

SpecPageKey == InitPageKeys /\ [][NextPageKey]_vars

InitLocations == InitLoc /\ IdleAgg /\ IdleDr /\ IdleCache /\ IdleRetry /\ IdleSingle
    /\ IdleKey /\ IdlePageKey /\ IdleUa /\ IdleRepo /\ IdleChar /\ IdleFlat
    /\ IdleDump /\ IdleMetrics

SpecLocations == InitLocations /\ [][NextLoc]_vars

InitUserAgent == InitUa /\ IdleAgg /\ IdleDr /\ IdleCache /\ IdleRetry /\ IdleSingle
    /\ IdleKey /\ IdlePageKey /\ IdleLoc /\ IdleRepo /\ IdleChar /\ IdleFlat
    /\ IdleDump /\ IdleMetrics

SpecUserAgent == InitUserAgent /\ [][NextUa]_vars

InitRepository == InitRepo /\ IdleAgg /\ IdleDr /\ IdleCache /\ IdleRetry /\ IdleSingle
    /\ IdleKey /\ IdlePageKey /\ IdleLoc /\ IdleUa /\ IdleChar /\ IdleFlat
    /\ IdleDump /\ IdleMetrics

SpecRepository == InitRepository /\ [][NextRepo]_vars

InitCharacterInfo == InitChar /\ IdleAgg /\ IdleDr /\ IdleCache /\ IdleRetry /\ IdleSingle
    /\ IdleKey /\ IdlePageKey /\ IdleLoc /\ IdleUa /\ IdleRepo /\ IdleFlat
    /\ IdleDump /\ IdleMetrics

SpecCharacterInfo == InitCharacterInfo /\ [][NextChar]_vars

InitFlatten == InitFlat /\ IdleAgg /\ IdleDr /\ IdleCache /\ IdleRetry /\ IdleSingle
    /\ IdleKey /\ IdlePageKey /\ IdleLoc /\ IdleUa /\ IdleRepo /\ IdleChar
    /\ IdleDump /\ IdleMetrics

SpecFlatten == InitFlatten /\ [][NextFlat]_vars

InitDumps == InitDump /\ IdleAgg /\ IdleDr /\ IdleCache /\ IdleRetry /\ IdleSingle
    /\ IdleKey /\ IdlePageKey /\ IdleLoc /\ IdleUa /\ IdleRepo /\ IdleChar
    /\ IdleFlat /\ IdleMetrics

SpecDumps == InitDumps /\ [][NextDump]_vars

InitCounters == InitMetrics /\ IdleAgg /\ IdleDr /\ IdleCache /\ IdleRetry /\ IdleSingle
    /\ IdleKey /\ IdlePageKey /\ IdleLoc /\ IdleUa /\ IdleRepo /\ IdleChar /\ IdleFlat
    /\ IdleDump

SpecCounters == InitCounters /\ [][NextMetrics]_vars

=============================================================================
